---- MODULE Spec2Model ----
(***************************************************************************)
(* A model of the Monkey interpreter pipeline of pokotyan/go-interpreter:  *)
(* lexer (package lexer), Pratt parser (package parser), AST printer       *)
(* (package ast), object model and environment (package object) and the    *)
(* tree-walking evaluator (package evaluator).                             *)
(*                                                                         *)
(* Source text is a sequence of one-character strings; the byte 0 is the   *)
(* character NUL.  Go's nil is the record Nil (expressions), NilObj        *)
(* (objects); a Go run-time panic is the object Panic(...), which unwinds  *)
(* every caller.                                                           *)
(***************************************************************************)
EXTENDS Integers, Sequences, FiniteSets, TLC

VARIABLES
    lexer,      \* the Lexer struct: input, position, readPosition, ch
    lastTok,    \* the token the last NextToken call returned (NoTok before the first)
    par,        \* the parser run: source, phase, Program, Errors(), renderings
    repl,       \* the REPL driver: environment frames, last result, evaluation trace
    calc        \* one call of a function on values: its arguments and what it returned

vars == <<lexer, lastTok, par, repl, calc>>

(***************************************************************************)
(* Bounds of the model.                                                    *)
(***************************************************************************)
MaxLexLen == 3      \* longest input of the lexer specification
MaxPastEnd == 2     \* NextToken calls followed after readPosition passed the end
MaxParTokens == 3   \* longest token stream of the parser specification
MaxHashPairs == 2   \* pairs of a hash whose traversal order is permuted

(***************************************************************************)
(* Characters.                                                             *)
\* the one value of a set of one value: Only({e : x \in {v}}) is e with x bound to v
Only(S) == CHOOSE el \in S : TRUE

(***************************************************************************)
NUL == "NUL"

Letters ==
    {"a","b","c","d","e","f","g","h","i","j","k","l","m","n","o","p","q","r",
     "s","t","u","v","w","x","y","z",
     "A","B","C","D","E","F","G","H","I","J","K","L","M","N","O","P","Q","R",
     "S","T","U","V","W","X","Y","Z","_"}

Digits == {"0","1","2","3","4","5","6","7","8","9"}

isLetter(ch) == ch \in Letters

isDigit(ch) == ch \in Digits

isSpace(ch) == ch \in {" ", "\t", "\n", "\r"}

(***************************************************************************)
(* Tokens (package token: kinds and keyword table).                        *)
(***************************************************************************)
Token(type, literal) == [Type |-> type, Literal |-> literal]

NoTok == Token("NONE", <<>>)

keywords ==
    << <<"FUNCTION", <<"f","n">> >>,
       <<"LET",      <<"l","e","t">> >>,
       <<"TRUE",     <<"t","r","u","e">> >>,
       <<"FALSE",    <<"f","a","l","s","e">> >>,
       <<"IF",       <<"i","f">> >>,
       <<"ELSE",     <<"e","l","s","e">> >>,
       <<"RETURN",   <<"r","e","t","u","r","n">> >> >>

LookupIdent(ident) ==
    IF \E k \in 1..Len(keywords) : keywords[k][2] = ident
    THEN keywords[CHOOSE k \in 1..Len(keywords) : keywords[k][2] = ident][1]
    ELSE "IDENT"

SingleByteType(ch) ==
    CASE ch = "+" -> "PLUS"
      [] ch = "-" -> "MINUS"
      [] ch = "/" -> "SLASH"
      [] ch = "*" -> "ASTERISK"
      [] ch = "<" -> "LT"
      [] ch = ">" -> "GT"
      [] ch = ";" -> "SEMICOLON"
      [] ch = "," -> "COMMA"
      [] ch = "{" -> "LBRACE"
      [] ch = "}" -> "RBRACE"
      [] ch = "(" -> "LPAREN"
      [] ch = ")" -> "RPAREN"
      [] ch = "[" -> "LBRACKET"
      [] ch = "]" -> "RBRACKET"
      [] ch = ":" -> "COLON"
      [] OTHER    -> "ILLEGAL"

newToken(tokenType, ch) == Token(tokenType, <<ch>>)

(***************************************************************************)
(* Lexer.                                                                  *)
(***************************************************************************)
\* input[i] of Go (0-based)
ByteAt(input, i) == input[i + 1]

\* input[a:b] of Go
Slice(input, a, b) == SubSeq(input, a + 1, b)

readChar(l) ==
    [l EXCEPT !.ch = IF l.readPosition >= Len(l.input) THEN NUL
                     ELSE ByteAt(l.input, l.readPosition),
              !.position = l.readPosition,
              !.readPosition = l.readPosition + 1]

peekChar(l) ==
    IF l.readPosition >= Len(l.input) THEN NUL ELSE ByteAt(l.input, l.readPosition)

LexerNew(input) ==
    readChar([input |-> input, position |-> 0, readPosition |-> 0, ch |-> NUL])

RECURSIVE skipWhitespace(_)
skipWhitespace(l) == IF isSpace(l.ch) THEN skipWhitespace(readChar(l)) ELSE l

RECURSIVE readWhile(_, _)
readWhile(l, digits) ==
    IF (IF digits THEN isDigit(l.ch) ELSE isLetter(l.ch))
    THEN readWhile(readChar(l), digits)
    ELSE l

\* both return the lexer after the run and the slice input[position:l.position]
readIdentifier(l) ==
    LET m == readWhile(l, FALSE)
    IN  [l |-> m, lit |-> Slice(l.input, l.position, m.position)]

readNumber(l) ==
    LET m == readWhile(l, TRUE)
    IN  [l |-> m, lit |-> Slice(l.input, l.position, m.position)]

RECURSIVE readStringLoop(_)
readStringLoop(l) ==
    LET m == readChar(l)
    IN  IF m.ch = "\"" \/ m.ch = NUL THEN m ELSE readStringLoop(m)

readString(l) ==
    LET m == readStringLoop(l)
    IN  [l |-> m, lit |-> Slice(l.input, l.position + 1, m.position)]

\* NextToken: the lexer after the call and the token returned
NextToken(l0) ==
    LET l == skipWhitespace(l0)
    IN  CASE l.ch = "=" ->
               IF peekChar(l) = "="
               THEN LET m == readChar(l)
                    IN  [l |-> readChar(m), tok |-> Token("EQ", <<l.ch, m.ch>>)]
               ELSE [l |-> readChar(l), tok |-> newToken("ASSIGN", l.ch)]
          [] l.ch = "!" ->
               IF peekChar(l) = "="
               THEN LET m == readChar(l)
                    IN  [l |-> readChar(m), tok |-> Token("NOT_EQ", <<l.ch, m.ch>>)]
               ELSE [l |-> readChar(l), tok |-> newToken("BANG", l.ch)]
          [] l.ch = "\"" ->
               LET s == readString(l)
               IN  [l |-> readChar(s.l), tok |-> Token("STRING", s.lit)]
          [] l.ch = NUL ->
               [l |-> readChar(l), tok |-> Token("EOF", <<>>)]
          [] SingleByteType(l.ch) # "ILLEGAL" ->
               [l |-> readChar(l), tok |-> newToken(SingleByteType(l.ch), l.ch)]
          [] OTHER ->
               IF isLetter(l.ch)
               THEN LET s == readIdentifier(l)
                    IN  [l |-> s.l, tok |-> Token(LookupIdent(s.lit), s.lit)]
               ELSE IF isDigit(l.ch)
               THEN LET s == readNumber(l)
                    IN  [l |-> s.l, tok |-> Token("INT", s.lit)]
               ELSE [l |-> readChar(l), tok |-> newToken("ILLEGAL", l.ch)]

(***************************************************************************)
(* AST nodes (package ast).  id is the index of the node's Token in the    *)
(* token stream and stands for the identity of the node.                   *)
(***************************************************************************)
Nil == [kind |-> "nil"]                  \* a nil ast.Expression
NilLet == [kind |-> "NilLet"]            \* a nil *ast.LetStatement inside an ast.Statement
NilBlock == [kind |-> "NilBlock"]        \* a nil *ast.BlockStatement

(***************************************************************************)
(* Parser.                                                                 *)
(***************************************************************************)
LOWEST == 1
EQUALS == 2
LESSGREATER == 3
SUM == 4
PRODUCT == 5
PREFIX == 6
CALL == 7
INDEX == 8

precedences(type) ==
    CASE type \in {"EQ", "NOT_EQ"}      -> EQUALS
      [] type \in {"LT", "GT"}          -> LESSGREATER
      [] type \in {"PLUS", "MINUS"}     -> SUM
      [] type \in {"SLASH", "ASTERISK"} -> PRODUCT
      [] type = "LPAREN"                -> CALL
      [] type = "LBRACKET"              -> INDEX
      [] OTHER                          -> 0      \* not in the map

prefixParseFns ==
    {"IDENT", "INT", "STRING", "BANG", "MINUS", "TRUE", "FALSE", "LPAREN", "IF",
     "FUNCTION", "LBRACKET", "LBRACE"}

infixParseFns ==
    {"PLUS", "MINUS", "SLASH", "ASTERISK", "EQ", "NOT_EQ", "LT", "GT", "LPAREN",
     "LBRACKET"}

nextToken(p) ==
    Only({[p EXCEPT !.curToken = p.peekToken, !.peekToken = r.tok, !.l = r.l,
                    !.ci = p.pi, !.pi = p.pi + 1]
          : r \in {NextToken(p.l)}})

\* New(l): reads two tokens; tag marks the nodes of this parse
ParserNew(l, tag) ==
    nextToken(nextToken(
        [l |-> l, errors |-> <<>>, curToken |-> NoTok, peekToken |-> NoTok,
         ci |-> -1, pi |-> 0, tag |-> tag, diverged |-> FALSE]))

curTokenIs(p, t) == p.curToken.Type = t

peekTokenIs(p, t) == p.peekToken.Type = t

peekError(p, t) ==
    [p EXCEPT !.errors = Append(p.errors,
        [err |-> "expected next token", want |-> t, got |-> p.peekToken.Type])]

\* a bug: a token with no prefix parse function is passed over in silence
noPrefixParseFnErrorSilent(p, t) == p

noPrefixParseFnError(p, t) ==
    [p EXCEPT !.errors = Append(p.errors, [err |-> "no prefix parse function", for |-> t])]

\* expectPeek: the parser after the call and the boolean returned
expectPeek(p, t) ==
    IF peekTokenIs(p, t) THEN [p |-> nextToken(p), ok |-> TRUE]
    ELSE [p |-> peekError(p, t), ok |-> FALSE]

peekPrecedence(p) ==
    IF precedences(p.peekToken.Type) # 0 THEN precedences(p.peekToken.Type) ELSE LOWEST

curPrecedence(p) ==
    IF precedences(p.curToken.Type) # 0 THEN precedences(p.curToken.Type) ELSE LOWEST

NodeId(p) == <<p.tag, p.ci>>

(***************************************************************************)
(* strconv.ParseInt(lit, 0, 64) on a run of digits: base 0 reads a literal *)
(* with a leading 0 and more digits as octal.                              *)
(***************************************************************************)
DigitVal(ch) ==
    CASE ch = "0" -> 0 [] ch = "1" -> 1 [] ch = "2" -> 2 [] ch = "3" -> 3
      [] ch = "4" -> 4 [] ch = "5" -> 5 [] ch = "6" -> 6 [] ch = "7" -> 7
      [] ch = "8" -> 8 [] ch = "9" -> 9

RECURSIVE DigitsValue(_, _, _)
DigitsValue(lit, base, acc) ==
    IF lit = <<>> THEN acc
    ELSE DigitsValue(Tail(lit), base, acc * base + DigitVal(Head(lit)))

\* the digits of 1<<63 - 1, the largest int64
MaxInt64Digits ==
    <<"9","2","2","3","3","7","2","0","3","6","8","5","4","7","7","5","8","0","7">>

RECURSIVE StripZeros(_)
StripZeros(lit) ==
    IF lit # <<>> /\ Head(lit) = "0" THEN StripZeros(Tail(lit)) ELSE lit

\* a <= b for two runs of digits of one length
RECURSIVE DigitsLeq(_, _)
DigitsLeq(a, b) ==
    IF a = <<>> THEN TRUE
    ELSE IF DigitVal(Head(a)) # DigitVal(Head(b)) THEN DigitVal(Head(a)) < DigitVal(Head(b))
    ELSE DigitsLeq(Tail(a), Tail(b))

\* the decimal number written by lit is at most 1<<63 - 1
DecimalFits(lit) ==
    \/ Len(StripZeros(lit)) < Len(MaxInt64Digits)
    \/ /\ Len(StripZeros(lit)) = Len(MaxInt64Digits)
       /\ DigitsLeq(StripZeros(lit), MaxInt64Digits)

\* the octal number written by lit is at most 1<<63 - 1, which is 21 sevens
OctalFits(lit) == Len(StripZeros(lit)) <= 21

\* ok = FALSE is the err != nil of ParseInt (a syntax error or a range error)
ParseInt0(lit) ==
    IF lit = <<>> THEN [ok |-> FALSE, value |-> 0]
    ELSE IF Len(lit) > 1 /\ Head(lit) = "0"
    THEN IF (\E k \in 2..Len(lit) : DigitVal(lit[k]) > 7) \/ ~OctalFits(Tail(lit))
         THEN [ok |-> FALSE, value |-> 0]
         ELSE [ok |-> TRUE, value |-> DigitsValue(Tail(lit), 8, 0)]
    ELSE IF ~DecimalFits(lit) THEN [ok |-> FALSE, value |-> 0]
    ELSE [ok |-> TRUE, value |-> DigitsValue(lit, 10, 0)]

\* the model stops a loop that read this far past the input without ending
Overrun(p) == p.pi > 2 * Len(p.l.input) + 6

Diverge(p) == [p EXCEPT !.diverged = TRUE]

parseIdentifier(p) ==
    [p |-> p, e |-> [kind |-> "Identifier", id |-> NodeId(p), Value |-> p.curToken.Literal]]

parseIntegerLiteral(p) ==
    LET r == ParseInt0(p.curToken.Literal)
    IN  IF ~r.ok
        THEN [p |-> [p EXCEPT !.errors = Append(p.errors,
                        [err |-> "could not parse as integer", lit |-> p.curToken.Literal])],
              e |-> Nil]
        ELSE [p |-> p,
              e |-> [kind |-> "IntegerLiteral", id |-> NodeId(p),
                     Literal |-> p.curToken.Literal, Value |-> r.value]]

parseStringLiteral(p) ==
    [p |-> p, e |-> [kind |-> "StringLiteral", id |-> NodeId(p), Value |-> p.curToken.Literal]]

parseBoolean(p) ==
    [p |-> p, e |-> [kind |-> "Boolean", id |-> NodeId(p),
                     Literal |-> p.curToken.Literal, Value |-> curTokenIs(p, "TRUE")]]

\* a bug: the statement loop forgets to advance
advanceStatementNot(p) == p

\* the p.nextToken() that ends one iteration of the statement loops
advanceStatement(p) == nextToken(p)

\* the p.nextToken() that moves an infix parser onto its right operand
advanceOperand(p) == nextToken(p)

\* a bug: the operator binds to the right (precedence - 1 for the right operand)
rightBindingPowerRightAssoc(p) == curPrecedence(p) - 1

\* the precedence parseInfixExpression hands to parseExpression for the right operand
rightBindingPower(p) == curPrecedence(p)

RECURSIVE parseExpression(_, _), parseInfixLoop(_, _, _), parsePrefix(_),
          parseInfix(_, _), parseStatement(_), parseStatements(_, _, _),
          parseExpressionListLoop(_, _), parseHashLoop(_, _),
          parseFunctionParametersLoop(_, _)

parseBlockStatement(p) ==
    Only({[p |-> r.p, e |-> [kind |-> "Block", id |-> NodeId(p), Statements |-> r.stmts]]
          : r \in {parseStatements(nextToken(p), <<>>, TRUE)}})

\* the statement loops of ParseProgram (inBlock = FALSE) and parseBlockStatement
parseStatements(p, stmts, inBlock) ==
    IF curTokenIs(p, "EOF") \/ (inBlock /\ curTokenIs(p, "RBRACE"))
    THEN [p |-> p, stmts |-> stmts]
    ELSE Only({Only({IF q.pi <= p.pi \/ Overrun(q) \/ q.diverged
                     THEN [p |-> Diverge(q), stmts |-> Append(stmts, r.e)]
                     ELSE parseStatements(q, Append(stmts, r.e), inBlock)
                     : q \in {advanceStatement(r.p)}})
               : r \in {parseStatement(p)}})

skipSemicolon(p) == IF peekTokenIs(p, "SEMICOLON") THEN nextToken(p) ELSE p

parseLetStatement(p) ==
    Only({IF ~a.ok THEN [p |-> a.p, e |-> NilLet]
          ELSE Only({IF ~b.ok THEN [p |-> b.p, e |-> NilLet]
                     ELSE Only({[p |-> skipSemicolon(v.p),
                                 e |-> [kind |-> "Let", id |-> NodeId(p),
                                        Name |-> [kind |-> "Identifier", id |-> NodeId(a.p),
                                                  Value |-> a.p.curToken.Literal],
                                        Value |-> v.e]]
                                : v \in {parseExpression(nextToken(b.p), LOWEST)}})
                     : b \in {expectPeek(a.p, "ASSIGN")}})
          : a \in {expectPeek(p, "IDENT")}})

parseReturnStatement(p) ==
    Only({[p |-> skipSemicolon(v.p),
           e |-> [kind |-> "Return", id |-> NodeId(p), ReturnValue |-> v.e]]
          : v \in {parseExpression(nextToken(p), LOWEST)}})

parseExpressionStatement(p) ==
    Only({[p |-> skipSemicolon(v.p),
           e |-> [kind |-> "ExpressionStatement", id |-> NodeId(p), Expression |-> v.e]]
          : v \in {parseExpression(p, LOWEST)}})

parseStatement(p) ==
    CASE curTokenIs(p, "LET")    -> parseLetStatement(p)
      [] curTokenIs(p, "RETURN") -> parseReturnStatement(p)
      [] OTHER                   -> parseExpressionStatement(p)

parsePrefixExpression(p) ==
    Only({[p |-> r.p,
           e |-> [kind |-> "PrefixExpression", id |-> NodeId(p),
                  Operator |-> p.curToken.Literal, Right |-> r.e]]
          : r \in {parseExpression(nextToken(p), PREFIX)}})

parseInfixExpression(p, left) ==
    Only({[p |-> r.p,
           e |-> [kind |-> "InfixExpression", id |-> NodeId(p), Left |-> left,
                  Operator |-> p.curToken.Literal, Right |-> r.e]]
          : r \in {parseExpression(advanceOperand(p), rightBindingPower(p))}})

parseGroupedExpression(p) ==
    Only({Only({IF ~c.ok THEN [p |-> c.p, e |-> Nil] ELSE [p |-> c.p, e |-> r.e]
                : c \in {expectPeek(r.p, "RPAREN")}})
          : r \in {parseExpression(nextToken(p), LOWEST)}})

parseIfAlternative(p, cond, cons) ==
    IF ~peekTokenIs(cons.p, "ELSE")
    THEN [p |-> cons.p,
          e |-> [kind |-> "IfExpression", id |-> NodeId(p), Condition |-> cond.e,
                 Consequence |-> cons.e, Alternative |-> NilBlock]]
    ELSE Only({IF ~d.ok THEN [p |-> d.p, e |-> Nil]
               ELSE Only({[p |-> alt.p,
                           e |-> [kind |-> "IfExpression", id |-> NodeId(p),
                                  Condition |-> cond.e, Consequence |-> cons.e,
                                  Alternative |-> alt.e]]
                          : alt \in {parseBlockStatement(d.p)}})
               : d \in {expectPeek(nextToken(cons.p), "LBRACE")}})

parseIfExpression(p) ==
    Only({IF ~a.ok THEN [p |-> a.p, e |-> Nil]
          ELSE Only({Only({IF ~b.ok THEN [p |-> b.p, e |-> Nil]
                           ELSE Only({IF ~c.ok THEN [p |-> c.p, e |-> Nil]
                                      ELSE Only({parseIfAlternative(p, cond, cons)
                                                 : cons \in {parseBlockStatement(c.p)}})
                                      : c \in {expectPeek(b.p, "LBRACE")}})
                           : b \in {expectPeek(cond.p, "RPAREN")}})
                     : cond \in {parseExpression(nextToken(a.p), LOWEST)}})
          : a \in {expectPeek(p, "LPAREN")}})

\* the `for p.peekTokenIs(token.COMMA)` loop of parseExpressionList
parseExpressionListLoop(p, list) ==
    IF ~peekTokenIs(p, "COMMA") THEN [p |-> p, list |-> list]
    ELSE Only({IF r.p.pi <= p.pi \/ Overrun(r.p) \/ r.p.diverged
               THEN [p |-> Diverge(r.p), list |-> Append(list, r.e)]
               ELSE parseExpressionListLoop(r.p, Append(list, r.e))
               : r \in {parseExpression(nextToken(nextToken(p)), LOWEST)}})

\* isNil: the nil slice returned when the closing token is missing
parseExpressionList(p, end) ==
    IF peekTokenIs(p, end) THEN [p |-> nextToken(p), list |-> <<>>, isNil |-> FALSE]
    ELSE Only({Only({Only({IF ~c.ok THEN [p |-> c.p, list |-> <<>>, isNil |-> TRUE]
                           ELSE [p |-> c.p, list |-> rest.list, isNil |-> FALSE]
                           : c \in {expectPeek(rest.p, end)}})
                     : rest \in {parseExpressionListLoop(first.p, <<first.e>>)}})
               : first \in {parseExpression(nextToken(p), LOWEST)}})

parseCallExpression(p, function) ==
    Only({[p |-> r.p,
           e |-> [kind |-> "CallExpression", id |-> NodeId(p), Function |-> function,
                  Arguments |-> r.list, ArgumentsNil |-> r.isNil]]
          : r \in {parseExpressionList(p, "RPAREN")}})

parseArrayLiteral(p) ==
    Only({[p |-> r.p,
           e |-> [kind |-> "ArrayLiteral", id |-> NodeId(p),
                  Elements |-> r.list, ElementsNil |-> r.isNil]]
          : r \in {parseExpressionList(p, "RBRACKET")}})

parseIndexExpression(p, left) ==
    Only({Only({IF ~c.ok THEN [p |-> c.p, e |-> Nil]
                ELSE [p |-> c.p,
                      e |-> [kind |-> "IndexExpression", id |-> NodeId(p),
                             Left |-> left, Index |-> r.e]]
                : c \in {expectPeek(r.p, "RBRACKET")}})
          : r \in {parseExpression(nextToken(p), LOWEST)}})

\* hash.Pairs[key] = value on the Go map keyed by the node (a nil key is one key)
PairsPut(pairs, key, value) ==
    IF \E k \in 1..Len(pairs) : pairs[k][1] = key
    THEN [k \in 1..Len(pairs) |-> IF pairs[k][1] = key THEN <<key, value>> ELSE pairs[k]]
    ELSE Append(pairs, <<key, value>>)

\* the `for !p.peekTokenIs(token.RBRACE)` loop of parseHashLiteral;
\* ok = FALSE is its `return nil`
parseHashLoop(p, pairs) ==
    IF peekTokenIs(p, "RBRACE") THEN [p |-> p, pairs |-> pairs, ok |-> TRUE]
    ELSE
    Only({Only({IF ~a.ok THEN [p |-> a.p, pairs |-> pairs, ok |-> FALSE]
                ELSE
                Only({Only({IF ~b.ok
                            THEN [p |-> b.p, pairs |-> PairsPut(pairs, key.e, value.e),
                                  ok |-> FALSE]
                            ELSE IF b.p.pi <= p.pi \/ Overrun(b.p) \/ b.p.diverged
                            THEN [p |-> Diverge(b.p),
                                  pairs |-> PairsPut(pairs, key.e, value.e), ok |-> FALSE]
                            ELSE parseHashLoop(b.p, PairsPut(pairs, key.e, value.e))
                            : b \in {IF peekTokenIs(value.p, "RBRACE")
                                     THEN [p |-> value.p, ok |-> TRUE]
                                     ELSE expectPeek(value.p, "COMMA")}})
                      : value \in {parseExpression(nextToken(a.p), LOWEST)}})
                : a \in {expectPeek(key.p, "COLON")}})
          : key \in {parseExpression(nextToken(p), LOWEST)}})

parseHashLiteral(p) ==
    Only({IF ~r.ok THEN [p |-> r.p, e |-> Nil]
          ELSE Only({IF ~c.ok THEN [p |-> c.p, e |-> Nil]
                     ELSE [p |-> c.p,
                           e |-> [kind |-> "HashLiteral", id |-> NodeId(p),
                                  Pairs |-> r.pairs]]
                     : c \in {expectPeek(r.p, "RBRACE")}})
          : r \in {parseHashLoop(p, <<>>)}})

paramIdentifier(p) ==
    [kind |-> "Identifier", id |-> NodeId(p), Value |-> p.curToken.Literal,
     from |-> p.curToken.Type]

\* the `for p.peekTokenIs(token.COMMA)` loop of parseFunctionParameters
parseFunctionParametersLoop(p, identifiers) ==
    IF ~peekTokenIs(p, "COMMA") THEN [p |-> p, list |-> identifiers]
    ELSE Only({IF q.pi <= p.pi \/ Overrun(q)
               THEN [p |-> Diverge(q), list |-> identifiers]
               ELSE parseFunctionParametersLoop(q, Append(identifiers, paramIdentifier(q)))
               : q \in {nextToken(nextToken(p))}})

parseFunctionParameters(p) ==
    IF peekTokenIs(p, "RPAREN") THEN [p |-> nextToken(p), list |-> <<>>, isNil |-> FALSE]
    ELSE Only({Only({Only({IF ~c.ok THEN [p |-> c.p, list |-> <<>>, isNil |-> TRUE]
                           ELSE [p |-> c.p, list |-> rest.list, isNil |-> FALSE]
                           : c \in {expectPeek(rest.p, "RPAREN")}})
                     : rest \in {parseFunctionParametersLoop(q, <<paramIdentifier(q)>>)}})
               : q \in {nextToken(p)}})

parseFunctionLiteral(p) ==
    Only({IF ~a.ok THEN [p |-> a.p, e |-> Nil]
          ELSE Only({Only({IF ~b.ok THEN [p |-> b.p, e |-> Nil]
                           ELSE Only({[p |-> body.p,
                                       e |-> [kind |-> "FunctionLiteral", id |-> NodeId(p),
                                              Parameters |-> params.list,
                                              ParametersNil |-> params.isNil,
                                              Body |-> body.e]]
                                      : body \in {parseBlockStatement(b.p)}})
                           : b \in {expectPeek(params.p, "LBRACE")}})
                     : params \in {parseFunctionParameters(a.p)}})
          : a \in {expectPeek(p, "LPAREN")}})

\* prefix := p.prefixParseFns[p.curToken.Type]; prefix()
parsePrefix(p) ==
    CASE curTokenIs(p, "IDENT")    -> parseIdentifier(p)
      [] curTokenIs(p, "INT")      -> parseIntegerLiteral(p)
      [] curTokenIs(p, "STRING")   -> parseStringLiteral(p)
      [] curTokenIs(p, "BANG")     -> parsePrefixExpression(p)
      [] curTokenIs(p, "MINUS")    -> parsePrefixExpression(p)
      [] curTokenIs(p, "TRUE")     -> parseBoolean(p)
      [] curTokenIs(p, "FALSE")    -> parseBoolean(p)
      [] curTokenIs(p, "LPAREN")   -> parseGroupedExpression(p)
      [] curTokenIs(p, "IF")       -> parseIfExpression(p)
      [] curTokenIs(p, "FUNCTION") -> parseFunctionLiteral(p)
      [] curTokenIs(p, "LBRACKET") -> parseArrayLiteral(p)
      [] curTokenIs(p, "LBRACE")   -> parseHashLiteral(p)

\* infix := p.infixParseFns[p.peekToken.Type]; infix(leftExp), after p.nextToken()
parseInfix(p, left) ==
    CASE curTokenIs(p, "LPAREN")   -> parseCallExpression(p, left)
      [] curTokenIs(p, "LBRACKET") -> parseIndexExpression(p, left)
      [] OTHER                     -> parseInfixExpression(p, left)

\* the loop condition of parseExpression
bindsTighter(p, precedence) ==
    ~peekTokenIs(p, "SEMICOLON") /\ precedence < peekPrecedence(p)

\* the `for ... precedence < p.peekPrecedence()` loop of parseExpression
parseInfixLoop(p, leftExp, precedence) ==
    IF ~bindsTighter(p, precedence) THEN [p |-> p, e |-> leftExp]
    ELSE IF p.peekToken.Type \notin infixParseFns THEN [p |-> p, e |-> leftExp]
    ELSE Only({IF r.p.pi <= p.pi \/ Overrun(r.p) \/ r.p.diverged
               THEN [p |-> Diverge(r.p), e |-> r.e]
               ELSE parseInfixLoop(r.p, r.e, precedence)
               : r \in {parseInfix(nextToken(p), leftExp)}})

parseExpression(p, precedence) ==
    IF p.curToken.Type \notin prefixParseFns
    THEN [p |-> noPrefixParseFnError(p, p.curToken.Type), e |-> Nil]
    ELSE Only({parseInfixLoop(left.p, left.e, precedence) : left \in {parsePrefix(p)}})

\* ParseProgram of a parser made by New(lexer.New(input))
ParseProgram(p) ==
    Only({[p |-> r.p, program |-> [kind |-> "Program", Statements |-> r.stmts]]
          : r \in {parseStatements(p, <<>>, FALSE)}})

Parse(input, tag) == ParseProgram(ParserNew(LexerNew(input), tag))

\* the nodes a node holds in its fields, in source order
Parts(n) ==
    CASE n.kind \in {"Program", "Block"} -> n.Statements
      [] n.kind = "Let" -> <<n.Name, n.Value>>
      [] n.kind = "Return" -> <<n.ReturnValue>>
      [] n.kind = "ExpressionStatement" -> <<n.Expression>>
      [] n.kind = "PrefixExpression" -> <<n.Right>>
      [] n.kind = "InfixExpression" -> <<n.Left, n.Right>>
      [] n.kind = "IfExpression" -> <<n.Condition, n.Consequence, n.Alternative>>
      [] n.kind = "FunctionLiteral" -> n.Parameters \o <<n.Body>>
      [] n.kind = "CallExpression" -> <<n.Function>> \o n.Arguments
      [] n.kind = "ArrayLiteral" -> n.Elements
      [] n.kind = "IndexExpression" -> <<n.Left, n.Index>>
      [] n.kind = "HashLiteral" ->
            [i \in 1..(2 * Len(n.Pairs)) |-> n.Pairs[(i + 1) \div 2][2 - (i % 2)]]
      [] OTHER -> <<>>

\* the nodes of the trees of nodes, the nil slots among them
RECURSIVE Flatten(_)
Flatten(nodes) ==
    IF Len(nodes) = 0 THEN <<>>
    ELSE <<Head(nodes)>> \o Flatten(Parts(Head(nodes))) \o Flatten(Tail(nodes))

(***************************************************************************)
(* AST printer: Node.String() of package ast.                              *)
(***************************************************************************)
\* what rendering leaves behind when String() is called through a nil node
PanicMark == "<panic>"

\* Go ranges over a map in an unspecified order: ord, a permutation of
\* 1..MaxHashPairs, is the order one traversal takes (pairs beyond follow in place)
MapOrders ==
    {o \in [1..MaxHashPairs -> 1..MaxHashPairs] :
        \A i, j \in 1..MaxHashPairs : i # j => o[i] # o[j]}

RECURSIVE RangeOver(_, _, _)
RangeOver(pairs, ord, k) ==
    IF k > MaxHashPairs
    THEN SubSeq(pairs, MaxHashPairs + 1, Len(pairs))
    ELSE (IF ord[k] <= Len(pairs) THEN <<pairs[ord[k]]>> ELSE <<>>)
         \o RangeOver(pairs, ord, k + 1)

RECURSIVE Join(_, _)
Join(strs, sep) ==
    IF strs = <<>> THEN <<>>
    ELSE IF Len(strs) = 1 THEN strs[1]
    ELSE strs[1] \o sep \o Join(Tail(strs), sep)

\* a bug: the list separator lost its comma
ListStringNoComma(strs) == Join(strs, <<" ">>)

\* strings.Join(params, ", ")
ListString(strs) == Join(strs, <<",", " ">>)

RECURSIVE String(_, _)
StringAll(nodes, ord) == [k \in 1..Len(nodes) |-> String(nodes[k], ord)]

String(n, ord) ==
    CASE n.kind \in {"nil", "NilLet", "NilBlock"} -> <<PanicMark>>
      [] n.kind \in {"Program", "Block"} -> Join(StringAll(n.Statements, ord), <<>>)
      [] n.kind = "Let" ->
            <<"l","e","t"," ">> \o String(n.Name, ord) \o <<" ","="," ">>
            \o (IF n.Value # Nil THEN String(n.Value, ord) ELSE <<>>) \o <<";">>
      [] n.kind = "Return" ->
            <<"r","e","t","u","r","n"," ">>
            \o (IF n.ReturnValue # Nil THEN String(n.ReturnValue, ord) ELSE <<>>)
            \o <<";">>
      [] n.kind = "ExpressionStatement" ->
            IF n.Expression # Nil THEN String(n.Expression, ord) ELSE <<>>
      [] n.kind \in {"Identifier", "StringLiteral"} -> n.Value
      [] n.kind \in {"Boolean", "IntegerLiteral"} -> n.Literal
      [] n.kind = "PrefixExpression" ->
            <<"(">> \o n.Operator \o String(n.Right, ord) \o <<")">>
      [] n.kind = "InfixExpression" ->
            <<"(">> \o String(n.Left, ord) \o <<" ">> \o n.Operator \o <<" ">>
            \o String(n.Right, ord) \o <<")">>
      [] n.kind = "IfExpression" ->
            <<"i","f">> \o String(n.Condition, ord) \o <<" ">>
            \o String(n.Consequence, ord)
            \o (IF n.Alternative # NilBlock
                THEN <<"e","l","s","e"," ">> \o String(n.Alternative, ord) ELSE <<>>)
      [] n.kind = "FunctionLiteral" ->
            <<"f","n","(">> \o ListString(StringAll(n.Parameters, ord))
            \o <<")"," ">> \o String(n.Body, ord)
      [] n.kind = "CallExpression" ->
            String(n.Function, ord) \o <<"(">>
            \o ListString(StringAll(n.Arguments, ord)) \o <<")">>
      [] n.kind = "ArrayLiteral" ->
            <<"[">> \o ListString(StringAll(n.Elements, ord)) \o <<"]">>
      [] n.kind = "IndexExpression" ->
            <<"(">> \o String(n.Left, ord) \o <<"[">> \o String(n.Index, ord)
            \o <<"]",")">>
      [] n.kind = "HashLiteral" ->
            LET ps == RangeOver(n.Pairs, ord, 1)
            IN  <<"{">>
                \o ListString([k \in 1..Len(ps) |->
                            String(ps[k][1], ord) \o <<":">> \o String(ps[k][2], ord)])
                \o <<"}">>

StringPanics(s) == \E k \in 1..Len(s) : s[k] = PanicMark

(***************************************************************************)
(* Bounded sequences.                                                      *)
(***************************************************************************)
RECURSIVE SeqsUpTo(_, _)
SeqsUpTo(S, n) ==
    IF n = 0 THEN {<<>>}
    ELSE LET shorter == SeqsUpTo(S, n - 1)
         IN  shorter \cup {Append(s, x) : s \in {t \in shorter : Len(t) = n - 1}, x \in S}

Idle == [phase |-> "idle"]

(***************************************************************************)
(* Specification SpecLexer: a caller that keeps calling NextToken on the   *)
(* lexer of one input.                                                     *)
(***************************************************************************)
LexAlphabet == {"a", "1", " ", "\"", "=", "!", ";", "@", NUL}

LexInputs == SeqsUpTo(LexAlphabet, MaxLexLen)

InitLexer ==
    /\ \E input \in LexInputs : lexer = LexerNew(input)
    /\ lastTok = NoTok
    /\ par = Idle
    /\ repl = Idle
    /\ calc = Idle

LexNextToken ==
    /\ lexer.readPosition <= Len(lexer.input) + MaxPastEnd
    /\ LET r == NextToken(lexer)
       IN  /\ lexer' = r.l
           /\ lastTok' = r.tok
    /\ UNCHANGED <<par, repl, calc>>

NextLexer == LexNextToken

\* the caller never stops calling NextToken
SpecLexer == InitLexer /\ [][NextLexer]_vars /\ WF_vars(LexNextToken)

\* C1: Lexer totality: repeated calls of NextToken eventually return EOF, and
\* every call after the first EOF also returns EOF.
C1_LexerTotality ==
    /\ <>(lastTok.Type = "EOF")
    /\ [][lastTok.Type = "EOF" => lastTok'.Type = "EOF"]_vars

\* C1, the part that holds: some call returns EOF.
C1_EventuallyEOF == <>(lastTok.Type = "EOF")

(***************************************************************************)
(* Specification SpecParser: one source text is parsed (New, ParseProgram),*)
(* the Program is rendered with String(), and the rendering is parsed and  *)
(* rendered again.                                                         *)
(***************************************************************************)
InfixOps == {<<"=","=">>, <<"!","=">>, <<"<">>, <<">">>, <<"+">>, <<"-">>, <<"*">>, <<"/">>}

\* the source text "a OP1 b OP2 c"
PrecedenceSource(op1, op2) ==
    <<"a", " ">> \o op1 \o <<" ", "b", " ">> \o op2 \o <<" ", "c">>

PrecedenceInputs == {PrecedenceSource(op1, op2) : op1 \in InfixOps, op2 \in InfixOps}

\* token texts the short token streams are made of
TokenAlphabet ==
    {<<"x">>, <<"1">>, <<"+">>, <<"(">>, <<")">>, <<"{">>, <<"}">>, <<"[">>, <<",">>,
     <<":">>, <<";">>, <<"=">>, <<"f","n">>, <<"i","f">>, <<"l","e","t">>, <<NUL>>}

TokenStreamInputs == {Join(ts, <<" ">>) : ts \in SeqsUpTo(TokenAlphabet, MaxParTokens)}

Src_If == <<"i","f","(","x","<","1",")","{","x",";","r","e","t","u","r","n"," ","1","}",
            "e","l","s","e","{","!","x","}">>
Src_Fn == <<"l","e","t"," ","f","=","f","n","(","x",",","y",")","{","x","+","y","}",";",
            "f","(","1",",","2",")">>
Src_Hash == <<"{","1",":","x",",","t","r","u","e",":","[","1",",","2","]","[","0","]","}">>
Src_Str == <<"\"","a"," ","b","\"","+","\"","c","\"">>
Src_Arith == <<"-","a","*","(","b","+","0","1","0",")","/","f","(","x",",","1",")","[","1","]">>
Src_Lets == <<"l","e","t"," ","a","=","1",";","l","e","t"," ","b","=","a",";",
              "r","e","t","u","r","n"," ","b",";">>
Src_Two == <<"a",";","-","b">>

Src_Digits == <<"0","8",";","0","0","7">>
Src_FnInt == <<"f","n","(","1",",","x",")","{","x","}">>

\* 1<<63, one more than the largest int64
Src_Big == <<"9","2","2","3","3","7","2","0","3","6","8","5","4","7","7","5","8","0","8">>

LongSources ==
    {Src_If, Src_Fn, Src_Hash, Src_Str, Src_Arith, Src_Lets, Src_Two, Src_Digits, Src_FnInt}

\* every source text above cut off after any number of bytes
Prefixes(s) == {SubSeq(s, 1, k) : k \in 0..Len(s)}

ParserInputs ==
    PrecedenceInputs \cup TokenStreamInputs \cup UNION {Prefixes(s) : s \in LongSources}
        \cup {Src_Big}

InitParser ==
    /\ \E src \in ParserInputs : par = [phase |-> "source", src |-> src]
    /\ lexer = Idle
    /\ lastTok = NoTok
    /\ repl = Idle
    /\ calc = Idle

ParParse ==
    /\ par.phase = "source"
    /\ \E r \in {Parse(par.src, 1)} :
           par' = [phase |-> "parsed", src |-> par.src, program |-> r.program,
                   errors |-> r.p.errors, diverged |-> r.p.diverged,
                   endToken |-> r.p.curToken.Type, pulled |-> r.p.pi]
    /\ UNCHANGED <<lexer, lastTok, repl, calc>>

\* String() of a Program whose parse recorded no error
ParRender ==
    /\ par.phase = "parsed"
    /\ par.errors = <<>>
    /\ \E ord \in MapOrders :
          par' = [phase |-> "rendered", src |-> par.src, program |-> par.program,
                  text |-> String(par.program, ord)]
    /\ UNCHANGED <<lexer, lastTok, repl, calc>>

ParReparse ==
    /\ par.phase = "rendered"
    /\ ~StringPanics(par.text)
    /\ \E r \in {Parse(par.text, 2)} :
           \E ord \in MapOrders :
              par' = [phase |-> "reparsed", src |-> par.src, program |-> par.program,
                      text |-> par.text, program2 |-> r.program, errors2 |-> r.p.errors,
                      text2 |-> String(r.program, ord)]
    /\ UNCHANGED <<lexer, lastTok, repl, calc>>

NextParser == ParParse \/ ParRender \/ ParReparse

SpecParser == InitParser /\ [][NextParser]_vars

(***************************************************************************)
(* Claims about the parser and the printer (specification SpecParser).     *)
(***************************************************************************)
\* the ladder of the claim: EQUALS < LESSGREATER < SUM < PRODUCT
Ladder(op) ==
    CASE op \in {<<"=","=">>, <<"!","=">>} -> 1
      [] op \in {<<"<">>, <<">">>}         -> 2
      [] op \in {<<"+">>, <<"-">>}         -> 3
      [] op \in {<<"*">>, <<"/">>}         -> 4

IsIdent(e, name) == e.kind = "Identifier" /\ e.Value = <<name>>

IsInfix(e, op) == e.kind = "InfixExpression" /\ e.Operator = op

\* ((a op1 b) op2 c)
LeftNested(e, op1, op2) ==
    /\ IsInfix(e, op2) /\ IsIdent(e.Right, "c")
    /\ IsInfix(e.Left, op1) /\ IsIdent(e.Left.Left, "a") /\ IsIdent(e.Left.Right, "b")

\* (a op1 (b op2 c))
RightNested(e, op1, op2) ==
    /\ IsInfix(e, op1) /\ IsIdent(e.Left, "a")
    /\ IsInfix(e.Right, op2) /\ IsIdent(e.Right.Left, "b") /\ IsIdent(e.Right.Right, "c")

OnlyExpression(program) ==
    IF Len(program.Statements) = 1 /\ program.Statements[1].kind = "ExpressionStatement"
    THEN program.Statements[1].Expression
    ELSE Nil

\* C2: Precedence correctness: "a OP1 b OP2 c" parses to ((a OP1 b) OP2 c) when
\* precedence(OP1) >= precedence(OP2) and to (a OP1 (b OP2 c)) otherwise; every
\* operator is left-associative.
C2_Precedence ==
    \A op1 \in InfixOps, op2 \in InfixOps :
        (par.phase = "parsed" /\ par.src = PrecedenceSource(op1, op2)) =>
            /\ par.errors = <<>>
            /\ IF Ladder(op1) >= Ladder(op2)
               THEN LeftNested(OnlyExpression(par.program), op1, op2)
               ELSE RightNested(OnlyExpression(par.program), op1, op2)

\* C2 witness: a + b * c was parsed, with the product as the right operand, and
\* a - b - c was possible too (see C2_WitnessLeft).
C2_Witness ==
    /\ par.phase = "parsed"
    /\ par.src = PrecedenceSource(<<"+">>, <<"*">>)
    /\ RightNested(OnlyExpression(par.program), <<"+">>, <<"*">>)

RECURSIVE Plain(_)
Plain(e) ==
    CASE e.kind \in {"Identifier", "IntegerLiteral", "Boolean"} -> TRUE
      [] e.kind = "PrefixExpression" -> Plain(e.Right)
      [] e.kind = "InfixExpression" -> Plain(e.Left) /\ Plain(e.Right)
      [] e.kind = "CallExpression" ->
            Plain(e.Function) /\ \A k \in 1..Len(e.Arguments) : Plain(e.Arguments[k])
      [] e.kind = "ArrayLiteral" -> \A k \in 1..Len(e.Elements) : Plain(e.Elements[k])
      [] e.kind = "IndexExpression" -> Plain(e.Left) /\ Plain(e.Index)
      [] e.kind = "HashLiteral" ->
            /\ Len(e.Pairs) <= 1
            /\ \A k \in 1..Len(e.Pairs) : Plain(e.Pairs[k][1]) /\ Plain(e.Pairs[k][2])
      [] OTHER -> FALSE

\* no string literal, if-expression, function literal or hash literal of two or
\* more pairs, and no expression statement before the last statement
PlainProgram(program) ==
    \A k \in 1..Len(program.Statements) :
        LET s == program.Statements[k]
        IN  CASE s.kind = "Let" -> Plain(s.Value)
              [] s.kind = "Return" -> Plain(s.ReturnValue)
              [] s.kind = "ExpressionStatement" ->
                    k = Len(program.Statements) /\ Plain(s.Expression)
              [] OTHER -> FALSE

\* C3 as claimed: for every program that parses without errors, rendering,
\* parsing the rendering and rendering again gives the first rendering.
C3_RoundTrip == par.phase = "reparsed" => par.text2 = par.text

\* C3 amended: the round trip gives the first rendering (and the second parse
\* records no error) for programs that parse without errors, contain no string
\* literal, if-expression, function literal or hash literal with two or more
\* pairs, and have no expression statement before their last statement.
C3_RoundTripPlain ==
    (par.phase = "reparsed" /\ PlainProgram(par.program)) =>
        (par.text2 = par.text /\ par.errors2 = <<>>)

\* C3 witness: the arithmetic source, with a call of two arguments and an index,
\* went through the round trip.
C3_Witness ==
    /\ par.phase = "reparsed"
    /\ par.src = Src_Arith
    /\ PlainProgram(par.program)
    /\ par.text2 = par.text

\* C4: ParseProgram terminates and returns a Program for every token stream,
\* whether or not errors were recorded: every loop of the parser consumed at
\* least one token per iteration, and parsing went on to the EOF token.
C4_ParseTerminates ==
    par.phase = "parsed" =>
        /\ ~par.diverged
        /\ par.endToken = "EOF"
        /\ par.program.kind = "Program"
        /\ par.pulled <= 2 * Len(par.src) + 6

\* C4 witness: a let production failed, an error was recorded, and the statements
\* after it were still parsed, down to a hash literal cut off by EOF.
C4_Witness ==
    /\ par.phase = "parsed"
    /\ Len(par.errors) >= 2
    /\ Len(par.program.Statements) >= 2
    /\ par.program.Statements[1] = NilLet
    /\ \E k \in 1..Len(par.errors) : par.errors[k].err = "expected next token"
                                     /\ par.errors[k].want = "COLON"

(***************************************************************************)
(* Objects (package object).  Every object is a record with its Type() in  *)
(* `type`.  Objects that the evaluator allocates and may compare by        *)
(* pointer carry the number of their allocation in `addr`; TRUE, FALSE and *)
(* NULL are the three shared instances.  NilObj is the nil object.Object.  *)
(***************************************************************************)
MaxLines == 2
MaxDepth == 3

NilObj == [type |-> "nil"]

NULL == [type |-> "NULL"]

TRUE_ == [type |-> "BOOLEAN", Bool |-> TRUE]

FALSE_ == [type |-> "BOOLEAN", Bool |-> FALSE]

IntegerObj(value) == [type |-> "INTEGER", Value |-> value]

StringObj(value) == [type |-> "STRING", Str |-> value]

ReturnValueObj(value, addr) == [type |-> "RETURN_VALUE", Inner |-> value, addr |-> addr]

ErrorObj(message, addr) == [type |-> "ERROR", Message |-> message, addr |-> addr]

FunctionObj(parameters, body, env, addr) ==
    [type |-> "FUNCTION", Parameters |-> parameters, Body |-> body, Env |-> env,
     addr |-> addr]

BuiltinObj(name) == [type |-> "BUILTIN", Name |-> name]

ArrayObj(elements, addr) == [type |-> "ARRAY", Elements |-> elements, addr |-> addr]

HashObj(pairs, addr) == [type |-> "HASH", Pairs |-> pairs, addr |-> addr]

\* a run-time panic of Go (nil dereference, index out of range, division by
\* zero, stack exhaustion): evaluation is abandoned
Panic(why) == [type |-> "panic", why |-> why]

Panicked(r) == r.v.type = "panic"

\* Hashable: the types with a HashKey method
Hashable(obj) == obj.type \in {"INTEGER", "BOOLEAN", "STRING"}

\* the characters of ASCII from the space (32) to the tilde (126); the grave
\* accent (96) stands by its name
Ascii ==
    <<" ", "!", "\"", "#", "$", "%", "&", "'", "(", ")", "*", "+", ",", "-", ".",
      "/", "0", "1", "2", "3", "4", "5", "6", "7", "8", "9", ":", ";", "<", "=",
      ">", "?", "@", "A", "B", "C", "D", "E", "F", "G", "H", "I", "J", "K", "L",
      "M", "N", "O", "P", "Q", "R", "S", "T", "U", "V", "W", "X", "Y", "Z", "[",
      "\\", "]", "^", "_", "grave", "a", "b", "c", "d", "e", "f", "g", "h", "i", "j",
      "k", "l", "m", "n", "o", "p", "q", "r", "s", "t", "u", "v", "w", "x", "y",
      "z", "{", "|", "}", "~">>

\* []byte(s.Value): the byte of a character
ByteOf(c) == 31 + CHOOSE i \in 1..Len(Ascii) : Ascii[i] = c

\* a uint64 is the sequence of its 8 bytes, the lowest first
U64Bytes == 8

\* uint64(i.Value) of an int64: a negative value in two-complement form
ToU64(v) ==
    [i \in 1..U64Bytes |->
        CASE i = 1 -> v % 256
          [] i = 2 -> (v \div 256) % 256
          [] i = 3 -> (v \div 65536) % 256
          [] i = 4 -> (v \div 16777216) % 256
          [] OTHER -> IF v < 0 THEN 255 ELSE 0]

\* a ^ b on the lowest n bits
RECURSIVE Xor(_, _, _)
Xor(a, b, n) ==
    IF n = 0 THEN 0 ELSE ((a + b) % 2) + 2 * Xor(a \div 2, b \div 2, n - 1)

\* the sum of a[i] * b[k + 1 - i] for i in 1..k
RECURSIVE SumProducts(_, _, _, _)
SumProducts(a, b, k, i) ==
    IF i > k THEN 0 ELSE a[i] * b[k + 1 - i] + SumProducts(a, b, k, i + 1)

\* a * b of two uint64 (the product modulo 2^64), byte k onward
RECURSIVE MulBytes(_, _, _, _), MulStep(_, _, _, _)
MulStep(a, b, k, sum) == <<sum % 256>> \o MulBytes(a, b, k + 1, (sum \div 256))

MulBytes(a, b, k, carry) ==
    IF k > U64Bytes THEN <<>> ELSE MulStep(a, b, k, carry + SumProducts(a, b, k, 1))

\* hash/fnv: offset64 = 14695981039346656037 and prime64 = 1099511628211
FnvOffset64 == <<37, 35, 34, 132, 228, 156, 242, 203>>

FnvPrime64 == <<179, 1, 0, 0, 0, 1, 0, 0>>

\* fnv.New64a, Write, Sum64: hash ^= byte, hash *= prime64, for every byte
RECURSIVE Fnv64a(_, _, _)
Fnv64a(hash, str, k) ==
    IF k > Len(str) THEN hash
    ELSE Only({Fnv64a(next, str, k + 1)
               : next \in {MulBytes([hash EXCEPT ![1] = Xor(hash[1], ByteOf(str[k]), 8)],
                                    FnvPrime64, 1, 0)}})

\* a bug: the HashKey does not tell the type of the value
HashKeyUntyped(obj) ==
    CASE obj.type = "INTEGER" -> [Type |-> "", Value |-> ToU64(obj.Value)]
      [] obj.type = "BOOLEAN" -> [Type |-> "", Value |-> ToU64(IF obj.Bool THEN 1 ELSE 0)]
      [] obj.type = "STRING"  -> [Type |-> "", Value |-> Fnv64a(FnvOffset64, obj.Str, 1)]

\* HashKey{Type, Value} with Value a uint64
HashKey(obj) ==
    CASE obj.type = "INTEGER" -> [Type |-> "INTEGER", Value |-> ToU64(obj.Value)]
      [] obj.type = "BOOLEAN" ->
            [Type |-> "BOOLEAN", Value |-> ToU64(IF obj.Bool THEN 1 ELSE 0)]
      [] obj.type = "STRING"  ->
            [Type |-> "STRING", Value |-> Fnv64a(FnvOffset64, obj.Str, 1)]

\* left == right on two object.Object interface values: the same pointer
SamePointer(left, right) ==
    IF left.type # right.type THEN FALSE
    ELSE CASE left.type \in {"BOOLEAN", "NULL", "BUILTIN", "nil"} -> left = right
           [] left.type \in {"RETURN_VALUE", "ERROR", "FUNCTION", "ARRAY", "HASH"} ->
                 left.addr = right.addr
           [] OTHER -> FALSE

(***************************************************************************)
(* Environments (object.Environment).  The heap h holds the frames; an     *)
(* *Environment is the index of its frame and 0 is the nil pointer.        *)
(* h.trace records the calls of Eval, h.ords the iteration orders of the    *)
(* Go maps of this run.                                                    *)
(***************************************************************************)
NoStore == [n \in {} |-> NilObj]

\* the order in which a range loop yields the pairs as they were inserted
InsertionOrder == [k \in 1..MaxHashPairs |-> k]

NewHeap == [frames |-> <<>>, nalloc |-> 0, trace |-> <<>>, depth |-> 0,
            ords |-> <<InsertionOrder, InsertionOrder>>, nrange |-> 0]

\* NewEnvironment: the heap with the new frame, and the pointer to it
NewEnvironment(h) ==
    [h |-> [h EXCEPT !.frames = Append(h.frames, [store |-> NoStore, outer |-> 0])],
     env |-> Len(h.frames) + 1]

\* a bug: no frame is made, the bindings go into the captured frame
NewEnclosedEnvironmentShared(h, outer) == [h |-> h, env |-> outer]

NewEnclosedEnvironment(h, outer) ==
    Only({[h |-> [r.h EXCEPT !.frames[r.env].outer = outer], env |-> r.env]
          : r \in {NewEnvironment(h)}})

RECURSIVE Get(_, _, _)
Get(h, env, name) ==
    IF name \in DOMAIN h.frames[env].store
    THEN [obj |-> h.frames[env].store[name], ok |-> TRUE]
    ELSE IF h.frames[env].outer # 0 THEN Get(h, h.frames[env].outer, name)
    ELSE [obj |-> NilObj, ok |-> FALSE]

\* a bug: Set writes into the frame that already binds the name, if there is one
RECURSIVE SetWhereBound(_, _, _, _)
SetWhereBound(h, env, name, val) ==
    IF name \notin DOMAIN h.frames[env].store /\ h.frames[env].outer # 0
       /\ Get(h, h.frames[env].outer, name).ok
    THEN SetWhereBound(h, h.frames[env].outer, name, val)
    ELSE [h EXCEPT !.frames[env].store =
             [n \in DOMAIN h.frames[env].store \cup {name} |->
                 IF n = name THEN val ELSE h.frames[env].store[n]]]

\* a bug: Set cuts the frame off its outer frame
SetRelink(h, env, name, val) ==
    [h EXCEPT !.frames[env] =
        [store |-> [n \in DOMAIN h.frames[env].store \cup {name} |->
                       IF n = name THEN val ELSE h.frames[env].store[n]],
         outer |-> 0]]

Set(h, env, name, val) ==
    [h EXCEPT !.frames[env].store =
        [n \in DOMAIN h.frames[env].store \cup {name} |->
            IF n = name THEN val ELSE h.frames[env].store[n]]]

\* a bug: the function keeps a copy of the frame, made when the literal is evaluated
CaptureCopy(h, env) ==
    [h |-> [h EXCEPT !.frames = Append(h.frames, h.frames[env])],
     env |-> Len(h.frames) + 1]

\* Env: env of the Function object: the pointer to the frame, not a copy of it
Capture(h, env) == [h |-> h, env |-> env]

\* the next allocation
Alloc(h) == [h EXCEPT !.nalloc = h.nalloc + 1]

Log(h, event) == [h EXCEPT !.trace = Append(h.trace, event)]

(***************************************************************************)
(* Evaluator (package evaluator).  Every function takes the heap and       *)
(* returns the heap after the call with the object returned, [h, v].       *)
(* An Error message is the sequence of the pieces fmt.Sprintf joins.       *)
(***************************************************************************)
newError(h, message) ==
    [h |-> Alloc(h), v |-> ErrorObj(message, h.nalloc + 1)]

\* a bug: no object is recognised as an Error
isErrorNever(obj) == FALSE

isError(obj) == IF obj # NilObj THEN obj.type = "ERROR" ELSE FALSE

nativeBoolToBooleanObject(input) == IF input THEN TRUE_ ELSE FALSE_

\* a bug: only FALSE is negated to TRUE
evalBangOperatorExpressionNoNull(right) ==
    CASE right = TRUE_  -> FALSE_
      [] right = FALSE_ -> TRUE_
      [] OTHER          -> FALSE_

evalBangOperatorExpression(right) ==
    CASE right = TRUE_  -> FALSE_
      [] right = FALSE_ -> TRUE_
      [] right = NULL   -> TRUE_
      [] OTHER          -> FALSE_

evalMinusPrefixOperatorExpression(h, right) ==
    IF right = NilObj THEN [h |-> h, v |-> Panic("nil dereference: right.Type()")]
    ELSE IF right.type # "INTEGER"
    THEN newError(h, <<"unknown operator: -", right.type>>)
    ELSE [h |-> h, v |-> IntegerObj(-right.Value)]

evalPrefixExpression(h, operator, right) ==
    CASE operator = <<"!">> -> [h |-> h, v |-> evalBangOperatorExpression(right)]
      [] operator = <<"-">> -> evalMinusPrefixOperatorExpression(h, right)
      [] OTHER -> IF right = NilObj
                  THEN [h |-> h, v |-> Panic("nil dereference: right.Type()")]
                  ELSE newError(h, <<"unknown operator: ">> \o operator \o <<right.type>>)

\* the / of Go truncates toward zero
GoDiv(a, b) ==
    IF (a >= 0) = (b > 0) THEN (IF a >= 0 THEN a ELSE -a) \div (IF b > 0 THEN b ELSE -b)
    ELSE -((IF a >= 0 THEN a ELSE -a) \div (IF b > 0 THEN b ELSE -b))

evalIntegerInfixExpression(h, operator, left, right) ==
    CASE operator = <<"+">> -> [h |-> h, v |-> IntegerObj(left.Value + right.Value)]
      [] operator = <<"-">> -> [h |-> h, v |-> IntegerObj(left.Value - right.Value)]
      [] operator = <<"*">> -> [h |-> h, v |-> IntegerObj(left.Value * right.Value)]
      [] operator = <<"/">> ->
            IF right.Value = 0 THEN [h |-> h, v |-> Panic("integer divide by zero")]
            ELSE [h |-> h, v |-> IntegerObj(GoDiv(left.Value, right.Value))]
      [] operator = <<"<">> ->
            [h |-> h, v |-> nativeBoolToBooleanObject(left.Value < right.Value)]
      [] operator = <<">">> ->
            [h |-> h, v |-> nativeBoolToBooleanObject(left.Value > right.Value)]
      [] operator = <<"=", "=">> ->
            [h |-> h, v |-> nativeBoolToBooleanObject(left.Value = right.Value)]
      [] operator = <<"!", "=">> ->
            [h |-> h, v |-> nativeBoolToBooleanObject(left.Value # right.Value)]
      [] OTHER -> newError(h, <<"unknown operator: ", left.type, " ">> \o operator
                              \o <<" ", right.type>>)

evalStringInfixExpression(h, operator, left, right) ==
    IF operator # <<"+">>
    THEN newError(h, <<"unknown operator: ", left.type, " ">> \o operator
                     \o <<" ", right.type>>)
    ELSE [h |-> h, v |-> StringObj(left.Str \o right.Str)]

\* the cases of the switch in their order; x.Type() on a nil object panics
evalInfixExpression(h, operator, left, right) ==
    IF left = NilObj THEN [h |-> h, v |-> Panic("nil dereference: left.Type()")]
    ELSE IF left.type \in {"INTEGER", "STRING"} /\ right = NilObj
    THEN [h |-> h, v |-> Panic("nil dereference: right.Type()")]
    ELSE IF left.type = "INTEGER" /\ right.type = "INTEGER"
    THEN evalIntegerInfixExpression(h, operator, left, right)
    ELSE IF left.type = "STRING" /\ right.type = "STRING"
    THEN evalStringInfixExpression(h, operator, left, right)
    ELSE IF operator = <<"=", "=">>
    THEN [h |-> h, v |-> nativeBoolToBooleanObject(SamePointer(left, right))]
    ELSE IF operator = <<"!", "=">>
    THEN [h |-> h, v |-> nativeBoolToBooleanObject(~SamePointer(left, right))]
    ELSE IF right = NilObj THEN [h |-> h, v |-> Panic("nil dereference: right.Type()")]
    ELSE IF left.type # right.type
    THEN newError(h, <<"type mismatch: ", left.type, " ">> \o operator
                     \o <<" ", right.type>>)
    ELSE newError(h, <<"unknown operator: ", left.type, " ">> \o operator
                     \o <<" ", right.type>>)

\* a bug: a negative index counts from the end of the array
evalArrayIndexExpressionWrap(h, array, index) ==
    IF index.Value < -Len(array.Elements) \/ index.Value > Len(array.Elements) - 1
    THEN [h |-> h, v |-> NULL]
    ELSE IF index.Value < 0
    THEN [h |-> h, v |-> array.Elements[Len(array.Elements) + index.Value + 1]]
    ELSE [h |-> h, v |-> array.Elements[index.Value + 1]]

evalArrayIndexExpression(h, array, index) ==
    IF index.Value < 0 \/ index.Value > Len(array.Elements) - 1
    THEN [h |-> h, v |-> NULL]
    ELSE [h |-> h, v |-> array.Elements[index.Value + 1]]

\* a bug: the pair is looked up by the key object, which only the shared
\* TRUE and FALSE are again
evalHashIndexExpressionByObject(h, hash, index) ==
    IF index = NilObj THEN [h |-> h, v |-> Panic("nil dereference: index.Type()")]
    ELSE IF ~Hashable(index) THEN newError(h, <<"unusable as hash key: ", index.type>>)
    ELSE IF \E k \in 1..Len(hash.Pairs) : SamePointer(hash.Pairs[k].Key, index)
    THEN [h |-> h,
          v |-> hash.Pairs[CHOOSE k \in 1..Len(hash.Pairs) :
                              SamePointer(hash.Pairs[k].Key, index)].Value]
    ELSE [h |-> h, v |-> NULL]

\* hashObject.Pairs[key.HashKey()]
evalHashIndexExpression(h, hash, index) ==
    IF index = NilObj THEN [h |-> h, v |-> Panic("nil dereference: index.Type()")]
    ELSE IF ~Hashable(index) THEN newError(h, <<"unusable as hash key: ", index.type>>)
    ELSE IF \E k \in 1..Len(hash.Pairs) : hash.Pairs[k].hashed = HashKey(index)
    THEN [h |-> h,
          v |-> hash.Pairs[CHOOSE k \in 1..Len(hash.Pairs) :
                              hash.Pairs[k].hashed = HashKey(index)].Value]
    ELSE [h |-> h, v |-> NULL]

evalIndexExpression(h, left, index) ==
    IF left = NilObj THEN [h |-> h, v |-> Panic("nil dereference: left.Type()")]
    ELSE IF left.type = "ARRAY" /\ index = NilObj
    THEN [h |-> h, v |-> Panic("nil dereference: index.Type()")]
    ELSE IF left.type = "ARRAY" /\ index.type = "INTEGER"
    THEN evalArrayIndexExpression(h, left, index)
    ELSE IF left.type = "HASH" THEN evalHashIndexExpression(h, left, index)
    ELSE newError(h, <<"index operator not supported: ", left.type>>)

unwrapReturnValueNot(obj) == obj

unwrapReturnValue(obj) == IF obj.type = "RETURN_VALUE" THEN obj.Inner ELSE obj

isTruthy(obj) ==
    CASE obj = NULL   -> FALSE
      [] obj = TRUE_  -> TRUE
      [] obj = FALSE_ -> FALSE
      [] OTHER        -> TRUE

\* the built-ins table: the names it maps
builtins == {<<"l", "e", "n">>}

\* fn.Fn(args...) of the Builtin called name
applyBuiltin(h, name, args) ==
    IF Len(args) # 1
    THEN newError(h, <<"wrong number of arguments. got=", ToString(Len(args)), ", want=1">>)
    ELSE IF args[1] = NilObj THEN [h |-> h, v |-> Panic("nil dereference: args[0]")]
    ELSE IF args[1].type = "STRING" THEN [h |-> h, v |-> IntegerObj(Len(args[1].Str))]
    ELSE IF args[1].type = "ARRAY" THEN [h |-> h, v |-> IntegerObj(Len(args[1].Elements))]
    ELSE newError(h, <<"argument to len not supported, got ", args[1].type>>)

\* the identity of a node in the trace: its kind and the place of its token
NodeIdOf(node) ==
    IF node.kind \in {"Program", "nil", "NilLet", "NilBlock"} THEN <<0, 0>> ELSE node.id

\* the name a let statement binds, the name an identifier reads
NodeName(node) ==
    CASE node.kind = "Let" -> node.Name.Value
      [] node.kind = "Identifier" -> node.Value
      [] OTHER -> <<>>

EnterEvent(node, env) ==
    [ev |-> "in", kind |-> node.kind, id |-> NodeIdOf(node), env |-> env,
     name |-> NodeName(node)]

\* frames: the frames as they are when the call returns
ReturnEvent(node, env, v, frames) ==
    [ev |-> "out", kind |-> node.kind, id |-> NodeIdOf(node), env |-> env,
     name |-> NodeName(node), v |-> v, frames |-> frames]

\* before: the frames as they were when applyFunction was called
ApplyEvent(fn, env, before) ==
    [ev |-> "apply", fn |-> fn, frame |-> env, before |-> before]

\* a bug: a block goes on after a ReturnValue
blockStopsOnError(result) == result.type = "ERROR"

\* rt == object.RETURN_VALUE_OBJ || rt == object.ERROR_OBJ, for a result that is not nil
blockStops(result) == result.type \in {"RETURN_VALUE", "ERROR"}

\* pairs[hashed] = object.HashPair{Key: key, Value: value}
HashPut(pairs, hashed, key, value) ==
    IF \E k \in 1..Len(pairs) : pairs[k].hashed = hashed
    THEN [k \in 1..Len(pairs) |->
            IF pairs[k].hashed = hashed
            THEN [hashed |-> hashed, Key |-> key, Value |-> value] ELSE pairs[k]]
    ELSE Append(pairs, [hashed |-> hashed, Key |-> key, Value |-> value])

\* the loop of extendFunctionEnv; args[paramIdx] panics past the end of args
RECURSIVE bindParameters(_, _, _, _, _)
bindParameters(h, env, parameters, args, k) ==
    IF k > Len(parameters) THEN [h |-> h, env |-> env, panic |-> FALSE]
    ELSE IF k > Len(args) THEN [h |-> h, env |-> env, panic |-> TRUE]
    ELSE bindParameters(Set(h, env, parameters[k].Value, args[k]), env, parameters,
                        args, k + 1)

\* a bug: the parameters are bound in the captured frame as well
extendFunctionEnvAlsoOuter(h, fn, args) ==
    Only({[h |-> bindParameters(b.h, fn.Env, fn.Parameters, args, 1).h,
           env |-> b.env, panic |-> b.panic]
          : b \in {Only({bindParameters(r.h, r.env, fn.Parameters, args, 1)
                         : r \in {NewEnclosedEnvironment(h, fn.Env)}})}})

extendFunctionEnv(h, fn, args) ==
    Only({bindParameters(r.h, r.env, fn.Parameters, args, 1)
          : r \in {NewEnclosedEnvironment(h, fn.Env)}})

evalIdentifier(h, node, env) ==
    Only({IF g.ok THEN [h |-> h, v |-> g.obj]
          ELSE IF node.Value \in builtins THEN [h |-> h, v |-> BuiltinObj(node.Value)]
          ELSE newError(h, <<"identifier not found: ">> \o node.Value)
          : g \in {Get(h, env, node.Value)}})

RECURSIVE Eval(_, _, _), evalProgramLoop(_, _, _, _, _), evalBlockLoop(_, _, _, _, _),
          evalExpressionsLoop(_, _, _, _, _), evalHashPairs(_, _, _, _, _),
          applyFunction(_, _, _)

evalProgramLoop(h, statements, k, env, result) ==
    IF k > Len(statements) THEN [h |-> h, v |-> result]
    ELSE Only({IF Panicked(r) THEN r
               ELSE IF r.v.type = "RETURN_VALUE" THEN [h |-> r.h, v |-> r.v.Inner]
               ELSE IF r.v.type = "ERROR" THEN r
               ELSE evalProgramLoop(r.h, statements, k + 1, env, r.v)
               : r \in {Eval(h, statements[k], env)}})

\* a bug: a program that ends in an Error takes its bindings back
evalProgramRollback(h, program, env) ==
    Only({IF ~Panicked(r) /\ r.v.type = "ERROR"
          THEN [h |-> [r.h EXCEPT !.frames[env] = h.frames[env]], v |-> r.v]
          ELSE r
          : r \in {evalProgramLoop(h, program.Statements, 1, env, NilObj)}})

evalProgram(h, program, env) == evalProgramLoop(h, program.Statements, 1, env, NilObj)

evalBlockLoop(h, statements, k, env, result) ==
    IF k > Len(statements) THEN [h |-> h, v |-> result]
    ELSE Only({IF Panicked(r) THEN r
               ELSE IF r.v # NilObj /\ blockStops(r.v) THEN r
               ELSE evalBlockLoop(r.h, statements, k + 1, env, r.v)
               : r \in {Eval(h, statements[k], env)}})

evalBlockStatement(h, block, env) == evalBlockLoop(h, block.Statements, 1, env, NilObj)

\* a bug: the blocks of an if-expression are evaluated in a frame of their own
evalIfExpressionScoped(h, ie, env) ==
    Only({IF Panicked(condition) \/ isError(condition.v) THEN condition
          ELSE IF isTruthy(condition.v)
          THEN Only({Eval(r.h, ie.Consequence, r.env)
                     : r \in {NewEnclosedEnvironment(condition.h, env)}})
          ELSE IF ie.Alternative # NilBlock
          THEN Only({Eval(r.h, ie.Alternative, r.env)
                     : r \in {NewEnclosedEnvironment(condition.h, env)}})
          ELSE [h |-> condition.h, v |-> NULL]
          : condition \in {Eval(h, ie.Condition, env)}})

evalIfExpression(h, ie, env) ==
    Only({IF Panicked(condition) \/ isError(condition.v) THEN condition
          ELSE IF isTruthy(condition.v) THEN Eval(condition.h, ie.Consequence, env)
          ELSE IF ie.Alternative # NilBlock THEN Eval(condition.h, ie.Alternative, env)
          ELSE [h |-> condition.h, v |-> NULL]
          : condition \in {Eval(h, ie.Condition, env)}})

\* v is the []object.Object returned
evalExpressionsLoop(h, exps, k, env, result) ==
    IF k > Len(exps) THEN [h |-> h, v |-> [type |-> "[]Object", Elements |-> result]]
    ELSE Only({IF Panicked(evaluated) THEN evaluated
               ELSE IF isError(evaluated.v)
               THEN [h |-> evaluated.h,
                     v |-> [type |-> "[]Object", Elements |-> <<evaluated.v>>]]
               ELSE evalExpressionsLoop(evaluated.h, exps, k + 1, env,
                                        Append(result, evaluated.v))
               : evaluated \in {Eval(h, exps[k], env)}})

\* a bug: the expressions are evaluated from the right
evalExpressionsRightToLeft(h, exps, env) ==
    evalExpressionsLoop(h, [i \in 1..Len(exps) |-> exps[Len(exps) + 1 - i]], 1, env, <<>>)

evalExpressions(h, exps, env) == evalExpressionsLoop(h, exps, 1, env, <<>>)

\* the `for keyNode, valueNode := range node.Pairs` loop, over the pairs in the
\* order the map yields them
evalHashPairs(h, nodes, k, env, pairs) ==
    IF k > Len(nodes) THEN [h |-> Alloc(h), v |-> HashObj(pairs, h.nalloc + 1)]
    ELSE
    Only({IF Panicked(key) \/ isError(key.v) THEN key
          ELSE IF key.v = NilObj
          THEN [h |-> key.h, v |-> Panic("nil dereference: key.Type()")]
          ELSE IF ~Hashable(key.v)
          THEN newError(key.h, <<"unusable as hash key: ", key.v.type>>)
          ELSE Only({IF Panicked(value) \/ isError(value.v) THEN value
                     ELSE evalHashPairs(value.h, nodes, k + 1, env,
                                        HashPut(pairs, HashKey(key.v), key.v, value.v))
                     : value \in {Eval(key.h, nodes[k][2], env)}})
          : key \in {Eval(h, nodes[k][1], env)}})

\* the order of the next range loop over a map: Go chooses one for every loop;
\* h.ords has one for the first loop of the run and one for the later loops
RangeOrder(h) == h.ords[IF h.nrange = 0 THEN 1 ELSE 2]

evalHashLiteral(h, node, env) ==
    evalHashPairs([h EXCEPT !.nrange = h.nrange + 1],
                  RangeOver(node.Pairs, RangeOrder(h), 1), 1, env, <<>>)

applyFunction(h, fn, args) ==
    CASE fn.type = "FUNCTION" ->
            IF h.depth >= MaxDepth THEN [h |-> h, v |-> Panic("stack overflow")]
            ELSE
            Only({IF extendedEnv.panic
                  THEN [h |-> extendedEnv.h, v |-> Panic("index out of range: args[paramIdx]")]
                  ELSE Only({IF Panicked(evaluated) THEN evaluated
                             ELSE [h |-> [evaluated.h EXCEPT !.depth = h.depth],
                                   v |-> unwrapReturnValue(evaluated.v)]
                             : evaluated \in
                                 {Eval(Log([extendedEnv.h EXCEPT !.depth = h.depth + 1],
                                           ApplyEvent(fn, extendedEnv.env, h.frames)),
                                       fn.Body, extendedEnv.env)}})
                  : extendedEnv \in {extendFunctionEnv(h, fn, args)}})
      [] fn.type = "BUILTIN" -> applyBuiltin(h, fn.Name, args)
      [] fn.type = "nil" -> [h |-> h, v |-> Panic("nil dereference: fn.Type()")]
      [] OTHER -> newError(h, <<"not a function: ", fn.type>>)

\* a bug: the let statement binds the name before it looks at the value
evalLetStatementBindsError(h, node, env) ==
    Only({IF Panicked(val) THEN val
          ELSE IF isError(val.v)
          THEN [h |-> Set(val.h, env, node.Name.Value, val.v), v |-> val.v]
          ELSE [h |-> Set(val.h, env, node.Name.Value, val.v), v |-> NilObj]
          : val \in {Eval(h, node.Value, env)}})

\* the case *ast.LetStatement of Eval
evalLetStatement(h, node, env) ==
    Only({IF Panicked(val) \/ isError(val.v) THEN val
          ELSE [h |-> Set(val.h, env, node.Name.Value, val.v), v |-> NilObj]
          : val \in {Eval(h, node.Value, env)}})

\* the switch of Eval on the type of the node
EvalNode(h, node, env) ==
    CASE node.kind = "Program" -> evalProgram(h, node, env)
      [] node.kind = "ExpressionStatement" -> Eval(h, node.Expression, env)
      [] node.kind = "Block" -> evalBlockStatement(h, node, env)
      [] node.kind = "Return" ->
            Only({IF Panicked(val) \/ isError(val.v) THEN val
                  ELSE [h |-> Alloc(val.h), v |-> ReturnValueObj(val.v, val.h.nalloc + 1)]
                  : val \in {Eval(h, node.ReturnValue, env)}})
      [] node.kind = "Let" -> evalLetStatement(h, node, env)
      [] node.kind = "NilLet" -> [h |-> h, v |-> Panic("nil dereference: node.Value")]
      [] node.kind = "IntegerLiteral" -> [h |-> h, v |-> IntegerObj(node.Value)]
      [] node.kind = "StringLiteral" -> [h |-> h, v |-> StringObj(node.Value)]
      [] node.kind = "Boolean" -> [h |-> h, v |-> nativeBoolToBooleanObject(node.Value)]
      [] node.kind = "PrefixExpression" ->
            Only({IF Panicked(right) \/ isError(right.v) THEN right
                  ELSE evalPrefixExpression(right.h, node.Operator, right.v)
                  : right \in {Eval(h, node.Right, env)}})
      [] node.kind = "InfixExpression" ->
            Only({IF Panicked(left) \/ isError(left.v) THEN left
                  ELSE Only({IF Panicked(right) \/ isError(right.v) THEN right
                             ELSE evalInfixExpression(right.h, node.Operator, left.v, right.v)
                             : right \in {Eval(left.h, node.Right, env)}})
                  : left \in {Eval(h, node.Left, env)}})
      [] node.kind = "IfExpression" -> evalIfExpression(h, node, env)
      [] node.kind = "Identifier" -> evalIdentifier(h, node, env)
      [] node.kind = "FunctionLiteral" ->
            Only({[h |-> Alloc(c.h),
                   v |-> FunctionObj(node.Parameters, node.Body, c.env, c.h.nalloc + 1)]
                  : c \in {Capture(h, env)}})
      [] node.kind = "CallExpression" ->
            Only({IF Panicked(function) \/ isError(function.v) THEN function
                  ELSE Only({IF Panicked(args) THEN args
                             ELSE IF Len(args.v.Elements) = 1 /\ isError(args.v.Elements[1])
                             THEN [h |-> args.h, v |-> args.v.Elements[1]]
                             ELSE applyFunction(args.h, function.v, args.v.Elements)
                             : args \in {evalExpressions(function.h, node.Arguments, env)}})
                  : function \in {Eval(h, node.Function, env)}})
      [] node.kind = "ArrayLiteral" ->
            Only({IF Panicked(elements) THEN elements
                  ELSE IF Len(elements.v.Elements) = 1 /\ isError(elements.v.Elements[1])
                  THEN [h |-> elements.h, v |-> elements.v.Elements[1]]
                  ELSE [h |-> Alloc(elements.h),
                        v |-> ArrayObj(elements.v.Elements, elements.h.nalloc + 1)]
                  : elements \in {evalExpressions(h, node.Elements, env)}})
      [] node.kind = "IndexExpression" ->
            Only({IF Panicked(left) \/ isError(left.v) THEN left
                  ELSE Only({IF Panicked(index) \/ isError(index.v) THEN index
                             ELSE evalIndexExpression(index.h, left.v, index.v)
                             : index \in {Eval(left.h, node.Index, env)}})
                  : left \in {Eval(h, node.Left, env)}})
      [] node.kind = "HashLiteral" -> evalHashLiteral(h, node, env)
      [] OTHER -> [h |-> h, v |-> NilObj]

\* Eval, with its call and its return recorded in the trace; a panic unwinds
\* without a return
Eval(h, node, env) ==
    Only({IF Panicked(r) THEN r
          ELSE [h |-> Log(r.h, ReturnEvent(node, env, r.v, r.h.frames)), v |-> r.v]
          : r \in {EvalNode(Log(h, EnterEvent(node, env)), node, env)}})

(***************************************************************************)
(* Source texts given to the REPL.                                         *)
(***************************************************************************)
\* 5
Prog_Int ==
    <<"5">>

\* let a = 1;
Prog_Let ==
    <<"l","e","t"," ","a"," ","="," ","1",";">>

\* a
Prog_UseA ==
    <<"a">>

\* if (true) {}
Prog_EmptyIf ==
    <<"i","f"," ","(","t","r","u","e",")"," ","{","}">>

\* fn() {}()
Prog_EmptyFn ==
    <<"f","n","(",")"," ","{","}","(",")">>

\* 1 + if (true) {}
Prog_NilOperand ==
    <<"1"," ","+"," ","i","f"," ","(","t","r","u","e",")"," ","{","}">>

\* if (true) { -true; 2 } 3
Prog_ErrBlock ==
    <<"i","f"," ","(","t","r","u","e",")"," ","{"," ","-","t","r","u","e",";"," ","2"," ",
        "}"," ","3">>

\* let f = fn(x) { x + true; 9 }; f(1); 2
Prog_ErrCall ==
    <<"l","e","t"," ","f"," ","="," ","f","n","(","x",")"," ","{"," ","x"," ","+"," ","t",
        "r","u","e",";"," ","9"," ","}",";"," ","f","(","1",")",";"," ","2">>

\* len([1, -true, 3], 4)
Prog_ErrArgs ==
    <<"l","e","n","(","[","1",","," ","-","t","r","u","e",","," ","3","]",","," ","4",")">>

\* {1: -true, 2: 3}[1]
Prog_ErrHash ==
    <<"{","1",":"," ","-","t","r","u","e",","," ","2",":"," ","3","}","[","1","]">>

\* let b = !(1 < true); b
Prog_ErrLet ==
    <<"l","e","t"," ","b"," ","="," ","!","(","1"," ","<"," ","t","r","u","e",")",";"," ",
        "b">>

\* return -true; 1
Prog_ErrReturn ==
    <<"r","e","t","u","r","n"," ","-","t","r","u","e",";"," ","1">>

\* if (10 > 1) { if (10 > 1) { return 10; } return 1; } 5
Prog_Nested ==
    <<"i","f"," ","(","1","0"," ",">"," ","1",")"," ","{"," ","i","f"," ","(","1","0"," ",
        ">"," ","1",")"," ","{"," ","r","e","t","u","r","n"," ","1","0",";"," ","}"," ","r",
        "e","t","u","r","n"," ","1",";"," ","}"," ","5">>

\* let f = fn() { if (true) { if (true) { return 1; } return 2; } return 3; }; f() + 10
Prog_FnNested ==
    <<"l","e","t"," ","f"," ","="," ","f","n","(",")"," ","{"," ","i","f"," ","(","t","r",
        "u","e",")"," ","{"," ","i","f"," ","(","t","r","u","e",")"," ","{"," ","r","e","t",
        "u","r","n"," ","1",";"," ","}"," ","r","e","t","u","r","n"," ","2",";"," ","}"," ",
        "r","e","t","u","r","n"," ","3",";"," ","}",";"," ","f","(",")"," ","+"," ","1","0">>

\* let x = if (true) { return 1 }; x
Prog_LetRV ==
    <<"l","e","t"," ","x"," ","="," ","i","f"," ","(","t","r","u","e",")"," ","{"," ","r",
        "e","t","u","r","n"," ","1"," ","}",";"," ","x">>

\* 1 + if (true) { return 2 }
Prog_InfixRV ==
    <<"1"," ","+"," ","i","f"," ","(","t","r","u","e",")"," ","{"," ","r","e","t","u","r",
        "n"," ","2"," ","}">>

\* return if (true) { return 1 };
Prog_RetRet ==
    <<"r","e","t","u","r","n"," ","i","f"," ","(","t","r","u","e",")"," ","{"," ","r","e",
        "t","u","r","n"," ","1"," ","}",";">>

\* [if (true) { return 1 }]
Prog_ArrRV ==
    <<"[","i","f"," ","(","t","r","u","e",")"," ","{"," ","r","e","t","u","r","n"," ","1",
        " ","}","]">>

\* let f = fn() { return 1; 2 }; f(); 3
Prog_FnRet ==
    <<"l","e","t"," ","f"," ","="," ","f","n","(",")"," ","{"," ","r","e","t","u","r","n",
        " ","1",";"," ","2"," ","}",";"," ","f","(",")",";"," ","3">>

\* let f = fn() { return if (true) { return 1 } }; f(); 2
Prog_FnRetRet ==
    <<"l","e","t"," ","f"," ","="," ","f","n","(",")"," ","{"," ","r","e","t","u","r","n",
        " ","i","f"," ","(","t","r","u","e",")"," ","{"," ","r","e","t","u","r","n"," ","1",
        " ","}"," ","}",";"," ","f","(",")",";"," ","2">>

\* let newAdder = fn(x) { fn(y) { x + y } }; let addTwo = newAdder(2); let addThree = newAdder(3); addTwo(3) * 10 + addThree(3)
Prog_Adder ==
    <<"l","e","t"," ","n","e","w","A","d","d","e","r"," ","="," ","f","n","(","x",")"," ",
        "{"," ","f","n","(","y",")"," ","{"," ","x"," ","+"," ","y"," ","}"," ","}",";"," ",
        "l","e","t"," ","a","d","d","T","w","o"," ","="," ","n","e","w","A","d","d","e","r",
        "(","2",")",";"," ","l","e","t"," ","a","d","d","T","h","r","e","e"," ","="," ","n",
        "e","w","A","d","d","e","r","(","3",")",";"," ","a","d","d","T","w","o","(","3",")",
        " ","*"," ","1","0"," ","+"," ","a","d","d","T","h","r","e","e","(","3",")">>

\* let x = 100; let f = fn(y) { x + y }; let g = fn(x) { f(1) }; g(5)
Prog_Lexical ==
    <<"l","e","t"," ","x"," ","="," ","1","0","0",";"," ","l","e","t"," ","f"," ","="," ",
        "f","n","(","y",")"," ","{"," ","x"," ","+"," ","y"," ","}",";"," ","l","e","t"," ",
        "g"," ","="," ","f","n","(","x",")"," ","{"," ","f","(","1",")"," ","}",";"," ","g",
        "(","5",")">>

\* let f = fn() { f() }; f()
Prog_Rec ==
    <<"l","e","t"," ","f"," ","="," ","f","n","(",")"," ","{"," ","f","(",")"," ","}",";",
        " ","f","(",")">>

\* let = 1
Prog_ParseError ==
    <<"l","e","t"," ","="," ","1">>

\* len("ab" + "c")
Prog_Str ==
    <<"l","e","n","(","\"","a","b","\""," ","+"," ","\"","c","\"",")">>

\* let x = 1; let f = fn() { x }; let x = 2; f()
Prog_Rebind ==
    <<"l","e","t"," ","x"," ","="," ","1",";"," ","l","e","t"," ","f"," ","="," ","f","n",
        "(",")"," ","{"," ","x"," ","}",";"," ","l","e","t"," ","x"," ","="," ","2",";"," ",
        "f","(",")">>

\* let f = fn(n) { if (n < 1) { 0 } else { f(n - 1) + 1 } }; f(1)
Prog_SelfRec ==
    <<"l","e","t"," ","f"," ","="," ","f","n","(","n",")"," ","{"," ","i","f"," ","(","n",
        " ","<"," ","1",")"," ","{"," ","0"," ","}"," ","e","l","s","e"," ","{"," ","f","(",
        "n"," ","-"," ","1",")"," ","+"," ","1"," ","}"," ","}",";"," ","f","(","1",")">>

\* let g = fn() { h() }; let h = fn() { 7 }; g()
Prog_LateBind ==
    <<"l","e","t"," ","g"," ","="," ","f","n","(",")"," ","{"," ","h","(",")"," ","}",";",
        " ","l","e","t"," ","h"," ","="," ","f","n","(",")"," ","{"," ","7"," ","}",";"," ",
        "g","(",")">>

\* {1: 2, 1: 3}[1]
Prog_DupKey ==
    <<"{","1",":"," ","2",","," ","1",":"," ","3","}","[","1","]">>

\* {"a": 1, "a": 3}["a"]
Prog_DupKeyStr ==
    <<"{","\"","a","\"",":"," ","1",","," ","\"","a","\"",":"," ","3","}","[","\"","a",
        "\"","]">>

\* let f = fn(a, b) { a }; f(1, -true, 3)
Prog_ErrArg2 ==
    <<"l","e","t"," ","f"," ","="," ","f","n","(","a",","," ","b",")"," ","{"," ","a"," ",
        "}",";"," ","f","(","1",","," ","-","t","r","u","e",","," ","3",")">>

\* let f = fn(a, b) { [a, b, a - b] }; f(5, 2)[2]
Prog_ArgsOrder ==
    <<"l","e","t"," ","f"," ","="," ","f","n","(","a",","," ","b",")"," ","{"," ","[","a",
        ","," ","b",","," ","a"," ","-"," ","b","]"," ","}",";"," ","f","(","5",","," ","2",
        ")","[","2","]">>

\* {1: -true, 2: 1 + true}
Prog_HashErrs ==
    <<"{","1",":"," ","-","t","r","u","e",","," ","2",":"," ","1"," ","+"," ","t","r","u",
        "e","}">>

\* let f = fn() { {1: 2, 1: 3}[1] }; f() - f()
Prog_HashTwice ==
    <<"l","e","t"," ","f"," ","="," ","f","n","(",")"," ","{"," ","{","1",":"," ","2",",",
        " ","1",":"," ","3","}","[","1","]"," ","}",";"," ","f","(",")"," ","-"," ","f","(",
        ")">>

\* let a = 2; let b = -true; let c = 3
Prog_KeepA ==
    <<"l","e","t"," ","a"," ","="," ","2",";"," ","l","e","t"," ","b"," ","="," ","-","t",
        "r","u","e",";"," ","l","e","t"," ","c"," ","="," ","3">>

\* let f = fn(a, b) { b }; f(1)
Prog_FewArgs ==
    <<"l","e","t"," ","f"," ","="," ","f","n","(","a",","," ","b",")"," ","{"," ","b"," ",
        "}",";"," ","f","(","1",")">>

\* let a = 1; let a = -true; let c = 3
Prog_LetErrRebind ==
    <<"l","e","t"," ","a"," ","="," ","1",";"," ","l","e","t"," ","a"," ","="," ","-","t",
        "r","u","e",";"," ","l","e","t"," ","c"," ","="," ","3">>

\* let a = 1; let f = fn(b) { let a = b; let c = -a; let b = !a; c }; f(true)
Prog_LetInFn ==
    <<"l","e","t"," ","a"," ","="," ","1",";"," ","l","e","t"," ","f"," ","="," ","f","n",
        "(","b",")"," ","{"," ","l","e","t"," ","a"," ","="," ","b",";"," ","l","e","t"," ",
        "c"," ","="," ","-","a",";"," ","l","e","t"," ","b"," ","="," ","!","a",";"," ","c",
        " ","}",";"," ","f","(","t","r","u","e",")">>

\* let a = 1; let f = fn(b) { if (b) { let a = 2 }; a }; f(true) + a
Prog_LetInIfInFn ==
    <<"l","e","t"," ","a"," ","="," ","1",";"," ","l","e","t"," ","f"," ","="," ","f","n",
        "(","b",")"," ","{"," ","i","f"," ","(","b",")"," ","{"," ","l","e","t"," ","a"," ",
        "="," ","2"," ","}",";"," ","a"," ","}",";"," ","f","(","t","r","u","e",")"," ","+",
        " ","a">>

\* if (true) { let a = 5 }; if (!a) { 1 } else { let b = a }; b
Prog_LetInIf ==
    <<"i","f"," ","(","t","r","u","e",")"," ","{"," ","l","e","t"," ","a"," ","="," ","5",
        " ","}",";"," ","i","f"," ","(","!","a",")"," ","{"," ","1"," ","}"," ","e","l","s",
        "e"," ","{"," ","l","e","t"," ","b"," ","="," ","a"," ","}",";"," ","b">>

Programs ==
    {Prog_Int, Prog_Let, Prog_UseA, Prog_EmptyIf, Prog_EmptyFn, Prog_NilOperand,
     Prog_ErrBlock, Prog_ErrCall, Prog_ErrArgs, Prog_ErrHash, Prog_ErrLet,
     Prog_ErrReturn, Prog_Nested, Prog_FnNested, Prog_LetRV, Prog_InfixRV,
     Prog_RetRet, Prog_ArrRV, Prog_FnRet, Prog_FnRetRet, Prog_Adder, Prog_Lexical,
     Prog_Rec, Prog_ParseError, Prog_Str, Prog_Rebind, Prog_SelfRec, Prog_LateBind,
     Prog_DupKey, Prog_DupKeyStr, Prog_ErrArg2, Prog_ArgsOrder, Prog_HashErrs,
     Prog_HashTwice, Prog_KeepA, Prog_FewArgs, Prog_LetErrRebind, Prog_LetInFn,
     Prog_LetInIfInFn, Prog_LetInIf}

(***************************************************************************)
(* Specification Spec: a REPL driver.  It makes one environment, then for  *)
(* each line parses the text, prints the parse errors if there are any and *)
(* otherwise evaluates the Program in that environment.                    *)
(***************************************************************************)
Init ==
    /\ \E r \in {NewEnvironment(NewHeap)} :
          repl = [phase |-> "prompt", line |-> 0, h |-> r.h, env |-> r.env, src |-> <<>>,
                  program |-> Nil, errors |-> <<>>, outcome |-> "none", result |-> NilObj]
    /\ lexer = Idle
    /\ lastTok = NoTok
    /\ par = Idle
    /\ calc = Idle

ReplRead ==
    /\ repl.phase = "prompt"
    /\ repl.line < MaxLines
    /\ \E src \in Programs :
          \E r \in {Parse(src, repl.line + 1)} :
             repl' = [repl EXCEPT !.phase = "parsed", !.src = src, !.program = r.program,
                                  !.errors = r.p.errors, !.outcome = "none",
                                  !.result = NilObj, !.h.trace = <<>>]
    /\ UNCHANGED <<lexer, lastTok, par, calc>>

ReplPrintErrors ==
    /\ repl.phase = "parsed"
    /\ repl.errors # <<>>
    /\ repl' = [repl EXCEPT !.phase = "prompt", !.line = repl.line + 1,
                            !.outcome = "errors"]
    /\ UNCHANGED <<lexer, lastTok, par, calc>>

\* the most pairs a hash literal of the program has
RECURSIVE MostPairs(_, _)
MostPairs(nodes, k) ==
    IF k > Len(nodes) THEN 0
    ELSE Only({IF nodes[k].kind = "HashLiteral" /\ Len(nodes[k].Pairs) > rest
               THEN Len(nodes[k].Pairs) ELSE rest
               : rest \in {MostPairs(nodes, k + 1)}})

\* the orders in which a range loop can yield n pairs
OrdersOf(n) == {o \in MapOrders : \A i \in 1..MaxHashPairs : i > n => o[i] = i}

\* the range loops of the run whose first loop takes the order first
Ranges(h, program, env, first) ==
    Eval([h EXCEPT !.ords = <<first, InsertionOrder>>, !.nrange = 0, !.depth = 0],
         program, env).h.nrange

\* the iteration orders a run can meet: one for its first range loop and, when
\* it has more loops, one for the later ones
RangeOrders(h, program, env) ==
    Only({IF n <= 1 THEN {<<InsertionOrder, InsertionOrder>>}
          ELSE UNION {IF Ranges(h, program, env, first) <= 1
                      THEN {<<first, InsertionOrder>>}
                      ELSE {<<first, later>> : later \in OrdersOf(n)}
                      : first \in OrdersOf(n)}
          : n \in {MostPairs(Flatten(<<program>>), 1)}})

ReplEval ==
    /\ repl.phase = "parsed"
    /\ repl.errors = <<>>
    /\ \E ords \in RangeOrders(repl.h, repl.program, repl.env) :
          \E r \in {Eval([repl.h EXCEPT !.ords = ords, !.nrange = 0, !.depth = 0],
                          repl.program, repl.env)} :
             repl' = IF Panicked(r)
                     THEN [repl EXCEPT !.phase = "crashed", !.h = r.h,
                                       !.outcome = "panic", !.result = r.v]
                     ELSE [repl EXCEPT !.phase = "prompt", !.line = repl.line + 1,
                                       !.h = r.h, !.outcome = "value", !.result = r.v]
    /\ UNCHANGED <<lexer, lastTok, par, calc>>

Next == ReplRead \/ ReplPrintErrors \/ ReplEval

Spec == Init /\ [][Next]_vars

(***************************************************************************)
(* Claims about the evaluator (specification Spec).                        *)
(***************************************************************************)
\* the trace of the last evaluation
Trace == IF repl.phase = "idle" THEN <<>> ELSE repl.h.trace

Evaluated == repl.phase # "idle" /\ repl.outcome \in {"value", "panic"}

Returned(k) == Trace[k].ev = "out"

\* scanning back from j: the call of Eval that is open there (0: none)
RECURSIVE Enclosing(_, _, _)
Enclosing(T, j, depth) ==
    IF j = 0 THEN 0
    ELSE IF T[j].ev = "out" THEN Enclosing(T, j - 1, depth + 1)
    ELSE IF T[j].ev = "in"
    THEN (IF depth = 0 THEN j ELSE Enclosing(T, j - 1, depth - 1))
    ELSE Enclosing(T, j - 1, depth)

\* the call of Eval that made the call which event k enters or returns from
Caller(T, k) ==
    IF T[k].ev = "out" THEN Enclosing(T, Enclosing(T, k - 1, 0) - 1, 0)
    ELSE Enclosing(T, k - 1, 0)

\* event k + 1 is the return of the call entered at event j
ReturnsNext(T, k, j) ==
    /\ k < Len(T)
    /\ T[k + 1].ev = "out"
    /\ T[k + 1].kind = T[j].kind /\ T[k + 1].id = T[j].id /\ T[k + 1].env = T[j].env
    /\ Enclosing(T, k, 0) = j

\* C5: Evaluator totality: Eval returns a runtime value or an Error for every
\* node of a program that parsed without errors; it never returns nil and every
\* call returns.
C5_EvalTotal ==
    Evaluated =>
        /\ repl.outcome = "value"
        /\ repl.result.type # "nil"
        /\ \A k \in 1..Len(Trace) : Returned(k) => Trace[k].v.type # "nil"

\* C6: Error short-circuit: once a call of Eval returns an Error, the next thing
\* that happens is the enclosing call returning that same Error, up to the
\* Program, whose result it is: nothing else is evaluated in between and the
\* Error is never unwrapped or replaced.
C6_ErrorShortCircuit ==
    Evaluated =>
        \A k \in 1..Len(Trace) :
            (Returned(k) /\ Trace[k].v.type = "ERROR") =>
                /\ repl.outcome = "value"
                /\ repl.result = Trace[k].v
                /\ \/ k = Len(Trace) /\ Trace[k].kind = "Program"
                   \/ /\ ReturnsNext(Trace, k, Caller(Trace, k))
                      /\ Trace[k + 1].v = Trace[k].v

\* C6 witness: an Error made inside a function body came out of the call and of
\* the program, with statements left over in the body and in the program.
C6_Witness ==
    /\ Evaluated
    /\ repl.src = Prog_ErrCall
    /\ repl.result.type = "ERROR"
    /\ \E k \in 1..Len(Trace) :
          Returned(k) /\ Trace[k].kind = "CallExpression" /\ Trace[k].v = repl.result
    /\ Cardinality({k \in 1..Len(Trace) : Returned(k) /\ Trace[k].kind = "IntegerLiteral"}) = 1

\* the ReturnValue returned at event k was made by a return statement and came
\* here through blocks, if-expressions and expression statements only
RECURSIVE FromReturn(_, _)
FromReturn(T, k) ==
    /\ k >= 1
    /\ T[k].ev = "out"
    /\ T[k].v.type = "RETURN_VALUE"
    /\ CASE T[k].kind = "Return" -> TRUE
         [] T[k].kind = "Block" ->
               k > 1 /\ T[k - 1].kind \in {"Return", "ExpressionStatement"}
               /\ FromReturn(T, k - 1)
         [] T[k].kind = "IfExpression" ->
               k > 1 /\ T[k - 1].kind = "Block" /\ FromReturn(T, k - 1)
         [] T[k].kind = "ExpressionStatement" ->
               k > 1 /\ T[k - 1].kind = "IfExpression" /\ FromReturn(T, k - 1)
         [] OTHER -> FALSE

C7_WitnessCall ==
    /\ Evaluated
    /\ repl.src = Prog_FnNested
    /\ repl.result = IntegerObj(11)

NamesReturnValue(message) == \E k \in 1..Len(message) : message[k] = "RETURN_VALUE"

HoldsReturnValue(obj) ==
    CASE obj.type = "RETURN_VALUE" -> TRUE
      [] obj.type = "ARRAY" ->
            \E k \in 1..Len(obj.Elements) : obj.Elements[k].type = "RETURN_VALUE"
      [] obj.type = "HASH" ->
            \E k \in 1..Len(obj.Pairs) : obj.Pairs[k].Value.type = "RETURN_VALUE"
      [] obj.type = "ERROR" -> NamesReturnValue(obj.Message)
      [] OTHER -> FALSE

\* C8: ReturnValue is internal and never user-visible: the result of a Program
\* is never a ReturnValue, no store binds a name to a ReturnValue, no Array
\* element or Hash value is a ReturnValue and no Error message names
\* RETURN_VALUE.
C8_ReturnValueInternal ==
    (repl.phase # "idle" /\ repl.outcome = "value") =>
        /\ ~HoldsReturnValue(repl.result)
        /\ \A f \in 1..Len(repl.h.frames) :
              \A n \in DOMAIN repl.h.frames[f].store :
                 ~HoldsReturnValue(repl.h.frames[f].store[n])
        /\ \A k \in 1..Len(Trace) :
              (Returned(k) /\ Trace[k].v.type \in {"ARRAY", "HASH", "ERROR"}) =>
                 ~HoldsReturnValue(Trace[k].v)

\* C9: a ReturnValue does not escape a function body: no call expression
\* returns a ReturnValue, so the statement after a call is still evaluated.
C9_NoEscapeFromFunction ==
    Evaluated =>
        \A k \in 1..Len(Trace) :
            (Returned(k) /\ Trace[k].kind = "CallExpression") =>
                Trace[k].v.type # "RETURN_VALUE"

Applied(k) == Trace[k].ev = "apply"

\* the environments that the trace mentions before event k
EarlierEnvs(k) ==
    {Trace[j].env : j \in {i \in 1..(k - 1) : Trace[i].ev # "apply"}}
    \cup {Trace[j].frame : j \in {i \in 1..(k - 1) : Trace[i].ev = "apply"}}

\* C10: Closure capture is lexical: every application of a user function
\* evaluates the body in a fresh frame whose outer is the frame in which the
\* function literal was evaluated, whatever the caller's frame; free identifiers
\* resolve through it, and two closures made by two calls of one function keep
\* their own parameter bindings.
C10_LexicalCapture ==
    Evaluated =>
        /\ \A k \in 1..Len(Trace) :
              Applied(k) =>
                 /\ Trace[k].frame \notin EarlierEnvs(k) \cup {Trace[k].fn.Env}
                 /\ \A e \in EarlierEnvs(k) : e < Trace[k].frame
                 /\ repl.h.frames[Trace[k].frame].outer = Trace[k].fn.Env
                 /\ \A j \in 1..Len(Trace) :
                       (Returned(j) /\ Trace[j].kind = "FunctionLiteral"
                        /\ Trace[j].v.addr = Trace[k].fn.addr) =>
                          Trace[j].env = Trace[k].fn.Env
                 /\ k < Len(Trace)
                 /\ Trace[k + 1] = EnterEvent(Trace[k].fn.Body, Trace[k].frame)
        /\ (repl.outcome = "value" /\ repl.src = Prog_Adder) =>
              /\ repl.result = IntegerObj(56)
              /\ \E f, g \in 1..Len(repl.h.frames) :
                    /\ <<"x">> \in DOMAIN repl.h.frames[f].store
                    /\ <<"x">> \in DOMAIN repl.h.frames[g].store
                    /\ repl.h.frames[f].store[<<"x">>] = IntegerObj(2)
                    /\ repl.h.frames[g].store[<<"x">>] = IntegerObj(3)
        /\ (repl.outcome = "value" /\ repl.src = Prog_Lexical) =>
              repl.result = IntegerObj(101)

\* C10 witness: f, made in the global frame, was applied from inside g, whose
\* frame binds x to 5, and still read the global x.
C10_Witness ==
    /\ Evaluated
    /\ repl.src = Prog_Lexical
    /\ repl.result = IntegerObj(101)
    /\ \E k \in 1..Len(Trace) :
          /\ Applied(k)
          /\ Trace[Caller(Trace, k + 1)].kind = "CallExpression"
          /\ Trace[Caller(Trace, k + 1)].env # Trace[k].fn.Env

\* the let statement returning at event b has bound its name: the value bound
\* is the one returned just before, at event b - 1
LetBinds(b) ==
    /\ Returned(b)
    /\ Trace[b].kind = "Let"
    /\ Trace[b].v = NilObj
    /\ b > 1 /\ Returned(b - 1)

\* the last let statements before event k that bound name in the frame env
LastLets(k, env, name) ==
    {b \in 1..(k - 1) :
        /\ LetBinds(b) /\ Trace[b].env = env /\ Trace[b].name = name
        /\ \A c \in (b + 1)..(k - 1) :
              ~(LetBinds(c) /\ Trace[c].env = env /\ Trace[c].name = name)}

\* the application in whose frame event k happens
ApplicationOf(k) == {a \in 1..(k - 1) : Applied(a) /\ Trace[a].frame = Trace[k].env}

\* the evaluation of the function literal that made fn
LiteralOf(fn) ==
    {l \in 1..Len(Trace) :
        Returned(l) /\ Trace[l].kind = "FunctionLiteral" /\ Trace[l].v.addr = fn.addr}

IsParameter(fn, name) == \E i \in 1..Len(fn.Parameters) : fn.Parameters[i].Value = name

\* C11: Capture is by shared reference: an identifier read in the frame of a
\* call, naming neither a parameter nor a local of the function, gives the value
\* of the last let that bound the name in the frame where the function literal
\* was evaluated, also when that let came after the literal; so a function can
\* call itself by the name its let gives it.
C11_SharedCapture ==
    Evaluated =>
        /\ \A k \in 1..Len(Trace) :
              (Returned(k) /\ Trace[k].kind = "Identifier") =>
                 \A a \in ApplicationOf(k) : \A l \in LiteralOf(Trace[a].fn) :
                    (/\ ~IsParameter(Trace[a].fn, Trace[k].name)
                     /\ LastLets(k, Trace[k].env, Trace[k].name) = {}) =>
                       \A b \in LastLets(k, Trace[l].env, Trace[k].name) :
                          l < b => Trace[k].v = Trace[b - 1].v
        /\ (repl.outcome = "value" /\ repl.src = Prog_SelfRec) =>
              repl.result = IntegerObj(1)
        /\ (repl.outcome = "value" /\ repl.src = Prog_LateBind) =>
              repl.result = IntegerObj(7)

\* C11 witness: x was bound again after f was made, and the call of f read the
\* new x
C11_Witness ==
    /\ Evaluated
    /\ repl.src = Prog_Rebind
    /\ repl.result = IntegerObj(2)
    /\ \E k \in 1..Len(Trace) : \E a \in ApplicationOf(k) : \E l \in LiteralOf(Trace[a].fn) :
          /\ Returned(k) /\ Trace[k].kind = "Identifier"
          /\ \E b \in LastLets(k, Trace[l].env, Trace[k].name) :
                l < b /\ Trace[k].v = IntegerObj(2)

\* C11 witness of recursion: inside a call of f the name f gave f itself
C11_WitnessRec ==
    /\ Evaluated
    /\ repl.src = Prog_SelfRec
    /\ repl.result = IntegerObj(1)
    /\ \E k \in 1..Len(Trace) : \E a \in ApplicationOf(k) :
          /\ Returned(k) /\ Trace[k].kind = "Identifier"
          /\ Trace[k].v.type = "FUNCTION"
          /\ Trace[k].v.addr = Trace[a].fn.addr

\* the calls of Eval made by the call that returns at event k, each by the
\* event of its return, in the order they were made
Children(k) ==
    {c \in 1..(k - 1) : Returned(c) /\ Caller(Trace, c) = Enclosing(Trace, k - 1, 0)}

\* among the children of a hash literal the keys are the 1st, 3rd, ... and the
\* value of a key is the child after it
IsKeyChild(k, c) == Cardinality({d \in Children(k) : d < c}) % 2 = 0

ValueChildren(k, c) == {d \in Children(k) : d > c /\ \A e \in Children(k) : e > c => d <= e}

\* the pair of key child c stands to the left of the pair of key child d in the source
LeftOf(c, d) == Trace[c].id[2] < Trace[d].id[2]

\* the keys of the hash literal returning at event k that hash to hashed
KeysHashing(k, hashed) ==
    {c \in Children(k) :
        IsKeyChild(k, c) /\ Hashable(Trace[c].v) /\ HashKey(Trace[c].v) = hashed}

\* C12: Hash literal duplicate keys are last-wins: the Hash a hash literal gives
\* stores under every HashKey the value of the pair that stands last in the
\* source among the pairs whose keys have that HashKey.
C12_HashLastWins ==
    Evaluated =>
        \A k \in 1..Len(Trace) :
            (Returned(k) /\ Trace[k].kind = "HashLiteral" /\ Trace[k].v.type = "HASH") =>
                \A p \in 1..Len(Trace[k].v.Pairs) :
                    \A c \in KeysHashing(k, Trace[k].v.Pairs[p].hashed) :
                        (\A d \in KeysHashing(k, Trace[k].v.Pairs[p].hashed) :
                            d = c \/ LeftOf(d, c)) =>
                           \A w \in ValueChildren(k, c) :
                               Trace[k].v.Pairs[p].Value = Trace[w].v

\* the arguments of the call, the elements of the array literal returning at
\* event k: the calls of Eval it made in its own frame
ArgChildren(k) == {c \in Children(k) : Trace[c].env = Trace[k].env}

\* C13: Call arguments and array-literal elements are evaluated strictly left
\* to right; when one yields an Error nothing is evaluated after it and the call
\* or array literal returns that Error at once (no function applied, no Array
\* built); without an Error the Array holds the values of all elements in order.
C13_LeftToRight ==
    Evaluated =>
        \A k \in 1..Len(Trace) :
            (Returned(k) /\ Trace[k].kind \in {"CallExpression", "ArrayLiteral"}) =>
                /\ \A c, d \in ArgChildren(k) : c < d => LeftOf(c, d)
                /\ \A c \in ArgChildren(k) :
                      Trace[c].v.type = "ERROR" => (k = c + 1 /\ Trace[k].v = Trace[c].v)
                /\ (Trace[k].kind = "ArrayLiteral" /\ Trace[k].v.type = "ARRAY") =>
                      /\ Len(Trace[k].v.Elements) = Cardinality(ArgChildren(k))
                      /\ \A c \in ArgChildren(k) :
                            Trace[k].v.Elements[
                                1 + Cardinality({d \in ArgChildren(k) : d < c})] = Trace[c].v

\* C13 witness: the second argument of f(1, -true, 3) gave an Error; 3 was not
\* evaluated, f was not applied and the call gave that Error
C13_Witness ==
    /\ Evaluated
    /\ repl.src = Prog_ErrArg2
    /\ repl.result.type = "ERROR"
    /\ ~\E a \in 1..Len(Trace) : Applied(a)
    /\ \E k \in 1..Len(Trace) :
          /\ Returned(k) /\ Trace[k].kind = "CallExpression"
          /\ Cardinality(ArgChildren(k)) = 3
          /\ Trace[k].v = repl.result
          /\ Trace[k - 1].kind = "PrefixExpression"

\* C13 witness without an Error: the array [a, b, a - b] of f(5, 2) was built in order
C13_WitnessArray ==
    /\ Evaluated
    /\ repl.src = Prog_ArgsOrder
    /\ repl.result = IntegerObj(3)

\* C14: Hash-literal pairs are evaluated strictly left to right in source
\* order: the keys and values of a hash literal are evaluated in the order of
\* the source, the Error of a literal with several failing pairs is that of the
\* leftmost one, and a hash literal evaluated twice in equal environments gives
\* the same result both times.
C14_HashLeftToRight ==
    Evaluated =>
        /\ \A k \in 1..Len(Trace) :
              (Returned(k) /\ Trace[k].kind = "HashLiteral") =>
                 \A c, d \in Children(k) : c < d => LeftOf(c, d)
        /\ (repl.outcome = "value" /\ repl.src = Prog_HashErrs) =>
              /\ repl.result.type = "ERROR"
              /\ repl.result.Message = <<"unknown operator: -", "BOOLEAN">>
        /\ (repl.outcome = "value" /\ repl.src = Prog_HashTwice) =>
              repl.result = IntegerObj(0)

\* the three parts of C14, each on its own
C14_OrderOnly ==
    Evaluated =>
        \A k \in 1..Len(Trace) :
            (Returned(k) /\ Trace[k].kind = "HashLiteral") =>
                \A c, d \in Children(k) : c < d => LeftOf(c, d)

C14_LeftmostErrorOnly ==
    (Evaluated /\ repl.outcome = "value" /\ repl.src = Prog_HashErrs) =>
        repl.result.Message = <<"unknown operator: -", "BOOLEAN">>

C14_TwiceOnly ==
    (Evaluated /\ repl.outcome = "value" /\ repl.src = Prog_HashTwice) =>
        repl.result = IntegerObj(0)

(***************************************************************************)
(* Specification SpecValues: the functions of the evaluator that work on   *)
(* values alone, each applied to values the evaluator can hand to it.      *)
(***************************************************************************)
EmptyBody == [kind |-> "Block", id |-> <<1, 3>>, Statements |-> <<>>]

Integers_ == {IntegerObj(n) : n \in {-2, -1, 0, 1, 2, 3}}

Strings_ == {StringObj(<<>>), StringObj(<<"a">>), StringObj(<<"b">>), StringObj(<<"a", "b">>)}

Arrays_ ==
    {ArrayObj(<<>>, 1), ArrayObj(<<IntegerObj(7)>>, 2),
     ArrayObj(<<IntegerObj(7), NULL, StringObj(<<"a">>)>>, 3)}

\* the Hash of {1: 10, true: 11, "a": 12}, and the empty one
Hashes_ ==
    {HashObj(<<>>, 4),
     HashObj(HashPut(HashPut(HashPut(<<>>, HashKey(IntegerObj(1)), IntegerObj(1),
                                     IntegerObj(10)),
                             HashKey(TRUE_), TRUE_, IntegerObj(11)),
                     HashKey(StringObj(<<"a">>)), StringObj(<<"a">>), IntegerObj(12)), 5)}

\* the values an operand can be: Eval hands no Error and no nil pointer on
OperandValues ==
    Integers_ \cup Strings_ \cup Arrays_ \cup Hashes_
    \cup {TRUE_, FALSE_, NULL, FunctionObj(<<>>, EmptyBody, 1, 6),
          BuiltinObj(<<"l", "e", "n">>), ReturnValueObj(IntegerObj(1), 7)}

InitValues ==
    /\ calc = [fn |-> "none"]
    /\ lexer = Idle
    /\ lastTok = NoTok
    /\ par = Idle
    /\ repl = Idle

\* evalInfixExpression(operator, left, right)
CalcInfix ==
    /\ calc.fn = "none"
    /\ \E operator \in InfixOps : \E left, right \in OperandValues :
          calc' = [fn |-> "evalInfixExpression", operator |-> operator, left |-> left,
                   right |-> right,
                   out |-> evalInfixExpression(NewHeap, operator, left, right).v]
    /\ UNCHANGED <<lexer, lastTok, par, repl>>

\* !right and !!right by evalPrefixExpression, and isTruthy(right)
CalcTruthiness ==
    /\ calc.fn = "none"
    /\ \E right \in OperandValues :
          \E bang \in {evalPrefixExpression(NewHeap, <<"!">>, right).v} :
             calc' = [fn |-> "truthiness", right |-> right, bang |-> bang,
                      bangbang |-> evalPrefixExpression(NewHeap, <<"!">>, bang).v,
                      truthy |-> isTruthy(right)]
    /\ UNCHANGED <<lexer, lastTok, par, repl>>

\* evalIndexExpression(left, index)
CalcIndex ==
    /\ calc.fn = "none"
    /\ \E left, index \in OperandValues :
          calc' = [fn |-> "evalIndexExpression", left |-> left, index |-> index,
                   out |-> evalIndexExpression(NewHeap, left, index).v]
    /\ UNCHANGED <<lexer, lastTok, par, repl>>

\* the strings of TestStringHashKey
HelloWorld == <<"H", "e", "l", "l", "o", " ", "W", "o", "r", "l", "d">>

MyNameIsJohnny ==
    <<"M", "y", " ", "n", "a", "m", "e", " ", "i", "s", " ", "j", "o", "h", "n", "n", "y">>

HashableValues ==
    Integers_ \cup Strings_ \cup {TRUE_, FALSE_}
    \cup {IntegerObj(n) : n \in {255, 256, -256, 65536, 2147483647, -2147483647}}
    \cup {StringObj(HelloWorld), StringObj(MyNameIsJohnny), StringObj(<<"b", "a">>),
          StringObj(<<"1">>), StringObj(<<"t", "r", "u", "e">>)}

\* a.HashKey() and b.HashKey()
CalcHashKey ==
    /\ calc.fn = "none"
    /\ \E a, b \in HashableValues :
          calc' = [fn |-> "HashKey", a |-> a, b |-> b, ka |-> HashKey(a), kb |-> HashKey(b)]
    /\ UNCHANGED <<lexer, lastTok, par, repl>>

NextValues == CalcInfix \/ CalcTruthiness \/ CalcIndex \/ CalcHashKey

SpecValues == InitValues /\ [][NextValues]_vars

\* C15: for every infix operator, == and != among them, and every two operands
\* of different types, evalInfixExpression gives the Error
\* `type mismatch: <L> <op> <R>`.
C15_TypeMismatch ==
    (calc.fn = "evalInfixExpression" /\ calc.left.type # calc.right.type) =>
        /\ calc.out.type = "ERROR"
        /\ calc.out.Message = <<"type mismatch: ", calc.left.type, " ">> \o calc.operator
                              \o <<" ", calc.right.type>>

\* C16: Truthiness law: !!v is TRUE exactly when v is neither NULL nor FALSE;
\* !v is FALSE exactly when isTruthy(v), the test of if, holds; both ! and !!
\* give one of the two Boolean instances; 0, "" and [] are truthy.
C16_Truthiness ==
    calc.fn = "truthiness" =>
        /\ (calc.bangbang = TRUE_) <=> (calc.right \notin {NULL, FALSE_})
        /\ (calc.bang = FALSE_) <=> calc.truthy
        /\ calc.bang \in {TRUE_, FALSE_}
        /\ calc.bangbang \in {TRUE_, FALSE_}
        /\ calc.right \in {IntegerObj(0), StringObj(<<>>), ArrayObj(<<>>, 1)} => calc.truthy

\* C16 witness: !!0 is TRUE and 0 is truthy
C16_Witness ==
    /\ calc.fn = "truthiness"
    /\ calc.right = IntegerObj(0)
    /\ calc.bang = FALSE_
    /\ calc.bangbang = TRUE_
    /\ calc.truthy

\* C16 witness: !!NULL is FALSE and NULL is not truthy
C16_WitnessNull ==
    /\ calc.fn = "truthiness"
    /\ calc.right = NULL
    /\ calc.bangbang = FALSE_
    /\ ~calc.truthy

(***************************************************************************)
(* Specification SpecEnv: environments made by NewEnvironment and          *)
(* NewEnclosedEnvironment, written by Set and read by Get.                 *)
(***************************************************************************)
MaxFrames == 2

EnvNames == {<<"x">>, <<"y">>}

EnvValues == {IntegerObj(1), IntegerObj(2)}

EnvCall(fn, before, h, env, name, obj, ok) ==
    [fn |-> fn, before |-> before, h |-> h, env |-> env, name |-> name, obj |-> obj,
     ok |-> ok]

InitEnv ==
    /\ \E r \in {NewEnvironment(NewHeap)} :
          calc = EnvCall("NewEnvironment", NewHeap, r.h, r.env, <<>>, NilObj, FALSE)
    /\ lexer = Idle
    /\ lastTok = NoTok
    /\ par = Idle
    /\ repl = Idle

EnvNewEnvironment ==
    /\ Len(calc.h.frames) < MaxFrames
    /\ \E r \in {NewEnvironment(calc.h)} :
          calc' = EnvCall("NewEnvironment", calc.h, r.h, r.env, <<>>, NilObj, FALSE)
    /\ UNCHANGED <<lexer, lastTok, par, repl>>

EnvNewEnclosedEnvironment ==
    /\ Len(calc.h.frames) < MaxFrames
    /\ \E outer \in 1..Len(calc.h.frames) :
          \E r \in {NewEnclosedEnvironment(calc.h, outer)} :
             calc' = EnvCall("NewEnclosedEnvironment", calc.h, r.h, r.env, <<>>, NilObj, FALSE)
    /\ UNCHANGED <<lexer, lastTok, par, repl>>

EnvSet ==
    /\ \E env \in 1..Len(calc.h.frames) : \E name \in EnvNames : \E val \in EnvValues :
          calc' = EnvCall("Set", calc.h, Set(calc.h, env, name, val), env, name, val, TRUE)
    /\ UNCHANGED <<lexer, lastTok, par, repl>>

EnvGet ==
    /\ \E env \in 1..Len(calc.h.frames) : \E name \in EnvNames :
          \E r \in {Get(calc.h, env, name)} :
             calc' = EnvCall("Get", calc.h, calc.h, env, name, r.obj, r.ok)
    /\ UNCHANGED <<lexer, lastTok, par, repl>>

NextEnv == EnvNewEnvironment \/ EnvNewEnclosedEnvironment \/ EnvSet \/ EnvGet

SpecEnv == InitEnv /\ [][NextEnv]_vars

\* the frames from env outward along the outer pointers
RECURSIVE OuterChain(_, _)
OuterChain(h, env) ==
    IF env = 0 THEN <<>> ELSE <<env>> \o OuterChain(h, h.frames[env].outer)

\* the places on the chain of env whose frame binds name
Binders(h, env, name) ==
    {i \in 1..Len(OuterChain(h, env)) :
        name \in DOMAIN h.frames[OuterChain(h, env)[i]].store}

\* C17: Environment scoping: Get gives the binding of the innermost frame on
\* the outer chain that binds the name and reports not-found exactly when no
\* frame on the chain binds it; Set binds the name in the frame it is called on
\* and leaves every other binding, every other frame and every outer pointer as
\* they were.
C17_Scoping ==
    /\ calc.fn = "Get" =>
          /\ calc.ok <=> Binders(calc.h, calc.env, calc.name) # {}
          /\ calc.ok =>
                \E i \in Binders(calc.h, calc.env, calc.name) :
                   /\ \A j \in Binders(calc.h, calc.env, calc.name) : i <= j
                   /\ calc.obj = calc.h.frames[OuterChain(calc.h, calc.env)[i]].store[calc.name]
          /\ ~calc.ok => calc.obj = NilObj
          /\ calc.h = calc.before
    /\ calc.fn = "Set" =>
          /\ Len(calc.h.frames) = Len(calc.before.frames)
          /\ \A f \in 1..Len(calc.h.frames) :
                /\ calc.h.frames[f].outer = calc.before.frames[f].outer
                /\ f # calc.env => calc.h.frames[f] = calc.before.frames[f]
          /\ DOMAIN calc.h.frames[calc.env].store =
                DOMAIN calc.before.frames[calc.env].store \cup {calc.name}
          /\ calc.h.frames[calc.env].store[calc.name] = calc.obj
          /\ \A n \in DOMAIN calc.before.frames[calc.env].store :
                n # calc.name =>
                   calc.h.frames[calc.env].store[n] = calc.before.frames[calc.env].store[n]

\* C17 witness: Set bound x in an inner frame whose outer frame binds x to
\* another value, and the outer binding is still there
C17_Witness ==
    /\ calc.fn = "Set"
    /\ calc.h.frames[calc.env].outer # 0
    /\ calc.name \notin DOMAIN calc.before.frames[calc.env].store
    /\ calc.name \in DOMAIN calc.h.frames[calc.h.frames[calc.env].outer].store
    /\ calc.h.frames[calc.h.frames[calc.env].outer].store[calc.name] # calc.obj

\* C17 witness: Get found the name in the outer frame, from a frame that binds another name
C17_WitnessGet ==
    /\ calc.fn = "Get"
    /\ calc.ok
    /\ Binders(calc.h, calc.env, calc.name) = {2}
    /\ DOMAIN calc.h.frames[calc.env].store # {}

\* C18: Indexing an Array with an Integer i gives the element at position i
\* when 0 <= i <= len - 1 and NULL otherwise; a negative index does not wrap
\* and no index, on the empty array either, reads outside the array.
C18_ArrayIndex ==
    (calc.fn = "evalIndexExpression" /\ calc.left.type = "ARRAY"
     /\ calc.index.type = "INTEGER") =>
        /\ calc.out.type # "panic"
        /\ (0 <= calc.index.Value /\ calc.index.Value <= Len(calc.left.Elements) - 1) =>
              calc.out = calc.left.Elements[calc.index.Value + 1]
        /\ (calc.index.Value < 0 \/ calc.index.Value > Len(calc.left.Elements) - 1) =>
              calc.out = NULL

\* C18 witness: the index -1 on an array of three elements gave NULL
C18_Witness ==
    /\ calc.fn = "evalIndexExpression"
    /\ calc.left.type = "ARRAY" /\ Len(calc.left.Elements) = 3
    /\ calc.index = IntegerObj(-1)
    /\ calc.out = NULL

\* C18 witness: the last element of an array of three elements
C18_WitnessLast ==
    /\ calc.fn = "evalIndexExpression"
    /\ calc.left.type = "ARRAY" /\ Len(calc.left.Elements) = 3
    /\ calc.index = IntegerObj(2)
    /\ calc.out = StringObj(<<"a">>)

\* C18 witness: the index 0 on the empty array gave NULL
C18_WitnessEmpty ==
    /\ calc.fn = "evalIndexExpression"
    /\ calc.left.type = "ARRAY" /\ calc.left.Elements = <<>>
    /\ calc.index = IntegerObj(0)
    /\ calc.out = NULL

\* the pairs of the hash whose key has the HashKey of index
PairsUnder(hash, index) ==
    {p \in 1..Len(hash.Pairs) : HashKey(hash.Pairs[p].Key) = HashKey(index)}

\* C19: Indexing a Hash with an Integer, Boolean or String gives the value
\* stored under the equal HashKey, whichever object the index is, and NULL when
\* no pair has that HashKey; with another index it gives the Error
\* `unusable as hash key: <type>`; indexing a value that is neither Array nor
\* Hash gives the Error `index operator not supported: <type>`.
C19_HashIndex ==
    calc.fn = "evalIndexExpression" =>
        /\ (calc.left.type = "HASH" /\ Hashable(calc.index)) =>
              /\ \A p \in PairsUnder(calc.left, calc.index) :
                    calc.out = calc.left.Pairs[p].Value
              /\ PairsUnder(calc.left, calc.index) = {} => calc.out = NULL
        /\ (calc.left.type = "HASH" /\ ~Hashable(calc.index)) =>
              /\ calc.out.type = "ERROR"
              /\ calc.out.Message = <<"unusable as hash key: ", calc.index.type>>
        /\ calc.left.type \notin {"ARRAY", "HASH"} =>
              /\ calc.out.type = "ERROR"
              /\ calc.out.Message = <<"index operator not supported: ", calc.left.type>>

\* C19 witness: the String "a" as index found the value stored under the key "a"
C19_Witness ==
    /\ calc.fn = "evalIndexExpression"
    /\ calc.left.type = "HASH"
    /\ calc.index = StringObj(<<"a">>)
    /\ calc.out = IntegerObj(12)

\* C19 witness: an Array as index of a Hash
C19_WitnessUnusable ==
    /\ calc.fn = "evalIndexExpression"
    /\ calc.left.type = "HASH"
    /\ calc.index.type = "ARRAY"
    /\ calc.out.type = "ERROR"

\* C20: HashKey equality: values of the same type and content have equal
\* HashKeys; values of different types have different HashKeys, and so have two
\* Integers and two Booleans of different content; the two Strings of the
\* tests, and any two different Strings of HashableValues, have different
\* HashKeys; the Value of a HashKey is a uint64.
C20_HashKeyEquality ==
    calc.fn = "HashKey" =>
        /\ calc.a = calc.b => calc.ka = calc.kb
        /\ calc.a.type # calc.b.type => calc.ka # calc.kb
        /\ (calc.a.type = calc.b.type /\ calc.a.type \in {"INTEGER", "BOOLEAN"}
            /\ calc.a # calc.b) => calc.ka # calc.kb
        /\ (calc.a.type = "STRING" /\ calc.b.type = "STRING" /\ calc.a # calc.b) =>
              calc.ka # calc.kb
        /\ calc.ka.Type = calc.a.type
        /\ Len(calc.ka.Value) = U64Bytes
        /\ \A i \in 1..U64Bytes : calc.ka.Value[i] \in 0..255

\* C20 witness: Integer 1 and Boolean true have the same Value in their
\* HashKeys and different HashKeys
C20_Witness ==
    /\ calc.fn = "HashKey"
    /\ calc.a = IntegerObj(1) /\ calc.b = TRUE_
    /\ calc.ka.Value = calc.kb.Value
    /\ calc.ka # calc.kb

\* C20 witness: the two strings of the tests
C20_WitnessStrings ==
    /\ calc.fn = "HashKey"
    /\ calc.a = StringObj(HelloWorld) /\ calc.b = StringObj(MyNameIsJohnny)
    /\ calc.ka.Value = <<39, 12, 78, 45, 231, 222, 88, 61>>
    /\ calc.ka # calc.kb

(***************************************************************************)
(* Claims about the environment the REPL keeps (specification Spec).       *)
(***************************************************************************)
\* the bindings of the environment the REPL made
TopStore(r) == r.h.frames[r.env].store

\* a let statement of the trace that went through: it returned, and not an Error
LetCompleted(T, k) ==
    T[k].ev = "out" /\ T[k].kind = "Let" /\ T[k].v = NilObj

\* the store after the let statements that events k.. of T complete in frame env:
\* each binds its name to what its value expression returned, the event before
RECURSIVE LetsApplied(_, _, _, _)
LetsApplied(store, T, k, env) ==
    IF k > Len(T) THEN store
    ELSE IF LetCompleted(T, k) /\ T[k].env = env
    THEN LetsApplied([n \in DOMAIN store \cup {T[k].name} |->
                         IF n = T[k].name THEN T[k - 1].v ELSE store[n]],
                     T, k + 1, env)
    ELSE LetsApplied(store, T, k + 1, env)

\* C21: Persistent top-level environment: one evaluation of a program changes
\* the bindings of the REPL's environment by exactly the let statements that
\* completed in it, in their order, also when a later statement fails (no
\* rollback; the failing statement and those after it bind nothing); reading a
\* line and printing parse errors change no binding, so a name stays bound to
\* its value in every later evaluation until a let rebinds it.
C21_PersistentEnvironment ==
    [][/\ repl'.env = repl.env
       /\ IF repl.phase = "parsed" /\ repl'.outcome \in {"value", "panic"}
          THEN TopStore(repl') =
                   LetsApplied(TopStore(repl), repl'.h.trace, 1, repl.env)
          ELSE TopStore(repl') = TopStore(repl)]_vars

\* C21 witness: `let a = 2; let b = -true; let c = 3` failed at its second
\* statement in one evaluation, and the next evaluation, of `a`, gave 2, with
\* neither b nor c bound.
C21_Witness ==
    /\ Evaluated
    /\ repl.line = 2
    /\ repl.src = Prog_UseA
    /\ repl.result = IntegerObj(2)
    /\ DOMAIN TopStore(repl) = {<<"a">>}

\* C21 witness: a let of a later evaluation rebound a name an earlier one bound.
C21_WitnessRebind ==
    /\ Evaluated
    /\ repl.line = 2
    /\ repl.src = Prog_KeepA
    /\ repl.result.type = "ERROR"
    /\ \E k \in 1..Len(Trace) : LetCompleted(Trace, k) /\ Trace[k].name = <<"a">>
    /\ TopStore(repl)[<<"a">>] = IntegerObj(2)
    /\ <<"b">> \notin DOMAIN TopStore(repl)

(***************************************************************************)
(* Claims about function application (specification Spec).                 *)
(***************************************************************************)
\* the calls of Eval made by the call entered at event j that returned
Kids(j) == {c \in (j + 1)..Len(Trace) : Returned(c) /\ Caller(Trace, c) = j}

\* the function expression of the call expression entered at event j: its first kid
CalleeOf(j) == {c \in Kids(j) : \A d \in Kids(j) : c <= d}

\* the arguments of that call expression: its other kids in its own frame
ArgsOf(j) == {c \in Kids(j) \ CalleeOf(j) : Trace[c].env = Trace[j].env}

\* the call expression entered at event j calls a user function with fewer
\* arguments than it has parameters
FewerArguments(j) ==
    /\ Trace[j].ev = "in" /\ Trace[j].kind = "CallExpression"
    /\ \E c \in CalleeOf(j) :
          /\ Trace[c].v.type = "FUNCTION"
          /\ Cardinality(ArgsOf(j)) < Len(Trace[c].v.Parameters)
    /\ \A c \in ArgsOf(j) : Trace[c].v.type # "ERROR"

\* the applications the call expression entered at event j made
ApplicationsOf(j) ==
    {a \in (j + 1)..Len(Trace) : Trace[a].ev = "apply" /\ Enclosing(Trace, a, 0) = j}

\* C22: Arity is not checked: a call of a user function with fewer arguments
\* than parameters still evaluates the body and returns (it never crashes); the
\* parameters without an argument are unbound in the call frame, and reading
\* one there gives the Error `identifier not found: <name>`.
C22_MissingArgsUnbound ==
    Evaluated =>
        \A j \in 1..Len(Trace) :
            FewerArguments(j) =>
                /\ repl.outcome = "value"
                /\ \E k \in (j + 1)..Len(Trace) : Returned(k) /\ Enclosing(Trace, k - 1, 0) = j
                /\ \E a \in ApplicationsOf(j) :
                      \A c \in CalleeOf(j) :
                          \A i \in (Cardinality(ArgsOf(j)) + 1)..Len(Trace[c].v.Parameters) :
                              \A k \in (a + 1)..Len(Trace) :
                                  (/\ Returned(k) /\ Trace[k].kind = "Identifier"
                                   /\ Trace[k].env = Trace[a].frame
                                   /\ Trace[k].name = Trace[c].v.Parameters[i].Value) =>
                                      /\ Trace[k].v.type = "ERROR"
                                      /\ Trace[k].v.Message =
                                            <<"identifier not found: ">> \o Trace[k].name

(***************************************************************************)
(* Claims about the nodes of a parsed Program (specification SpecParser).  *)
(***************************************************************************)
\* the nodes of the Program the parser returned
ParsedNodes == IF par.phase = "parsed" THEN Flatten(<<par.program>>) ELSE <<>>

\* C23: Every INT token is parsed as a signed 64-bit decimal number: the value
\* of an IntegerLiteral is the base-10 value of its literal text, leading zeros
\* included, and `could not parse ... as integer` is recorded only for a
\* literal whose decimal value does not fit in int64.
C23_DecimalLiterals ==
    /\ \A i \in 1..Len(ParsedNodes) :
          ParsedNodes[i].kind = "IntegerLiteral" =>
              ParsedNodes[i].Value = DigitsValue(ParsedNodes[i].Literal, 10, 0)
    /\ par.phase = "parsed" =>
          \A k \in 1..Len(par.errors) :
              par.errors[k].err = "could not parse as integer" =>
                  ~DecimalFits(par.errors[k].lit)

\* C23, the first part alone: the value is the base-10 value of the text
C23_ValueOnly ==
    \A i \in 1..Len(ParsedNodes) :
        ParsedNodes[i].kind = "IntegerLiteral" =>
            ParsedNodes[i].Value = DigitsValue(ParsedNodes[i].Literal, 10, 0)

\* C23, the second part alone: an error only for a literal out of range
C23_ErrorOnly ==
    par.phase = "parsed" =>
        \A k \in 1..Len(par.errors) :
            par.errors[k].err = "could not parse as integer" =>
                ~DecimalFits(par.errors[k].lit)

\* C24: Every Let statement of the Program returned by ParseProgram carries a
\* non-empty identifier: a let production that failed (no IDENT after `let`, or
\* no ASSIGN after the identifier) left no statement in Program.Statements or
\* in the Statements of a block.
C24_LetsCarryIdentifier ==
    \A i \in 1..Len(ParsedNodes) :
        /\ ParsedNodes[i].kind # "NilLet"
        /\ ParsedNodes[i].kind = "Let" =>
              /\ ParsedNodes[i].Name.kind = "Identifier"
              /\ ParsedNodes[i].Name.Value # <<>>

\* C25: FunctionLiteral.params contains only identifiers: every parameter node
\* of every function literal of the Program returned by ParseProgram was built
\* from an IDENT token; no parameter node is built from another token.
C25_ParamsAreIdentifiers ==
    \A i \in 1..Len(ParsedNodes) :
        ParsedNodes[i].kind = "FunctionLiteral" =>
            \A k \in 1..Len(ParsedNodes[i].Parameters) :
                ParsedNodes[i].Parameters[k].from = "IDENT"

\* C25, for the programs that parsed without an error only
C25_WithoutErrorsOnly ==
    (par.phase = "parsed" /\ par.errors = <<>>) => C25_ParamsAreIdentifiers

(***************************************************************************)
(* Claims about let statements and frames (specification Spec).  Every     *)
(* return of Eval in the trace carries the frames as they were then.       *)
(***************************************************************************)
\* frames `after` are frames `before` with name bound to val in frame env and
\* nothing else changed
BoundIn(before, after, env, name, val) ==
    /\ Len(after) = Len(before)
    /\ \A i \in 1..Len(before) : i # env => after[i] = before[i]
    /\ after[env].outer = before[env].outer
    /\ DOMAIN after[env].store = DOMAIN before[env].store \cup {name}
    /\ after[env].store[name] = val
    /\ \A n \in DOMAIN before[env].store \ {name} :
          after[env].store[n] = before[env].store[n]

\* C26: Let on error leaves the environment unchanged: when the value expression
\* of a let statement yields an Error the statement yields that Error and no
\* frame changes (the identifier is neither bound nor rebound); otherwise the
\* identifier is bound to the value in the current frame and nothing else
\* changes.  The value expression returns at the event before the statement's.
C26_LetOnError ==
    Evaluated =>
        \A k \in 2..Len(Trace) :
            (Returned(k) /\ Trace[k].kind = "Let") =>
                /\ Returned(k - 1) /\ Trace[k - 1].env = Trace[k].env
                /\ IF Trace[k - 1].v.type = "ERROR"
                   THEN /\ Trace[k].v = Trace[k - 1].v
                        /\ Trace[k].frames = Trace[k - 1].frames
                   ELSE BoundIn(Trace[k - 1].frames, Trace[k].frames, Trace[k].env,
                                Trace[k].name, Trace[k - 1].v)

\* C26 witness: `let a = 1; let a = -true; let c = 3`: the second let gave the
\* Error and a is still 1.
C26_Witness ==
    /\ Evaluated
    /\ repl.src = Prog_LetErrRebind
    /\ repl.result.type = "ERROR"
    /\ \E k \in 2..Len(Trace) :
          /\ Returned(k) /\ Trace[k].kind = "Let" /\ Trace[k].v.type = "ERROR"
          /\ Trace[k].frames[Trace[k].env].store[<<"a">>] = IntegerObj(1)

\* C26 witness: inside a function a let bound a name of the outer frame in the
\* call frame, and a let that failed there bound nothing.
C26_WitnessFrame ==
    /\ Evaluated
    /\ repl.src = Prog_LetInFn
    /\ \E k \in 2..Len(Trace) :
          /\ Returned(k) /\ Trace[k].kind = "Let" /\ Trace[k].v.type = "ERROR"
          /\ Trace[k].env # repl.env
          /\ DOMAIN Trace[k].frames[Trace[k].env].store = {<<"a">>, <<"b">>}
          /\ Trace[k].frames[repl.env].store[<<"a">>] = IntegerObj(1)

\* following outer from frame env for at most fuel steps reaches a frame with
\* no outer
RECURSIVE ChainEnds(_, _, _)
ChainEnds(frames, env, fuel) ==
    \/ frames[env].outer = 0
    \/ /\ fuel > 0
       /\ frames[env].outer \in 1..Len(frames)
       /\ ChainEnds(frames, frames[env].outer, fuel - 1)

\* a name no program binds
NoName == <<"?">>

\* the frames function applications made in the last evaluation
CallFrames == {Trace[a].frame : a \in {b \in 1..Len(Trace) : Trace[b].ev = "apply"}}

\* the frames are well-founded: every outer chain ends, a frame made for a call
\* has an outer frame that existed before it, the REPL's frame has none, and
\* Get for a name bound nowhere walks every chain to its end and returns
WellFounded ==
    repl.phase # "idle" =>
        /\ \A i \in 1..Len(repl.h.frames) :
              /\ ChainEnds(repl.h.frames, i, Len(repl.h.frames))
              /\ repl.h.frames[i].outer \in 0..(i - 1)
              /\ ~Get(repl.h, i, NoName).ok
        /\ repl.h.frames[repl.env].outer = 0
        /\ \A i \in CallFrames : repl.h.frames[i].outer \in 1..(i - 1)
        /\ \A k \in 1..Len(Trace) :
              Returned(k) =>
                  \A i \in 1..Len(Trace[k].frames) :
                      Trace[k].frames[i].outer = repl.h.frames[i].outer

\* no step changes the outer of a frame or removes a frame
OuterKept ==
    repl.phase # "idle" =>
        /\ Len(repl'.h.frames) >= Len(repl.h.frames)
        /\ \A i \in 1..Len(repl.h.frames) :
              repl'.h.frames[i].outer = repl.h.frames[i].outer

\* C27: After any sequence of NewEnvironment, NewEnclosedEnvironment, let
\* evaluations and function applications the outer chain of every frame is
\* finite and acyclic and ends in a frame with no outer: outer is set at
\* creation to a frame that already exists and never changes, so Get
\* terminates for every name, also when a function is stored in the frame it
\* captured.
C27_OuterChainsEnd == [](WellFounded) /\ [][OuterKept]_vars

\* C27 witness: a function is stored in the frame it captured, and a call frame
\* has that frame as its outer.
C27_Witness ==
    /\ Evaluated
    /\ \E i \in 1..Len(repl.h.frames) :
          /\ \E n \in DOMAIN repl.h.frames[i].store :
                /\ repl.h.frames[i].store[n].type = "FUNCTION"
                /\ repl.h.frames[i].store[n].Env = i
          /\ \E j \in CallFrames : repl.h.frames[j].outer = i

\* C27 witness: a chain of three frames: a call frame whose outer is a call frame.
C27_WitnessChain ==
    /\ Evaluated
    /\ \E j \in CallFrames : repl.h.frames[j].outer \in CallFrames

\* the return of the body of the application at event a: the body is entered at
\* the next event
BodyReturns(a) ==
    {k \in (a + 2)..Len(Trace) : Returned(k) /\ Enclosing(Trace, k - 1, 0) = a + 1}

\* C28: Applying a user function changes no frame that existed before the
\* call: when the body returns, every frame that existed when applyFunction was
\* called (the caller's, the captured one and their outer frames among them) has
\* the store it had then; the parameters and every let of the body, also inside
\* nested if-blocks, are bound in the fresh call frame.
C28_CallKeepsFrames ==
    Evaluated =>
        \A a \in 1..Len(Trace) :
            Trace[a].ev = "apply" =>
                /\ Trace[a].frame = Len(Trace[a].before) + 1
                /\ \A k \in BodyReturns(a) :
                      /\ \A i \in 1..Len(Trace[a].before) :
                            Trace[k].frames[i] = Trace[a].before[i]
                      /\ \A p \in 1..Len(Trace[a].fn.Parameters) :
                            Trace[a].fn.Parameters[p].Value
                                \in DOMAIN Trace[k].frames[Trace[a].frame].store
                      /\ \A j \in (a + 1)..k :
                            (LetCompleted(Trace, j) /\ Trace[j].env = Trace[a].frame) =>
                                Trace[j].name \in DOMAIN Trace[k].frames[Trace[a].frame].store

\* C28 witness: in `let a = 1; let f = fn(b) { if (b) { let a = 2 }; a };
\* f(true) + a` the let inside the if-block of the body bound a in the call
\* frame: the call gave 2, the a of the caller's frame is still 1, the sum is 3.
C28_Witness ==
    /\ Evaluated
    /\ repl.src = Prog_LetInIfInFn
    /\ repl.result = IntegerObj(3)
    /\ \E a \in 1..Len(Trace) :
          /\ Trace[a].ev = "apply"
          /\ \E k \in BodyReturns(a) :
                /\ Trace[k].v = IntegerObj(2)
                /\ Trace[k].frames[Trace[a].frame].store[<<"a">>] = IntegerObj(2)
                /\ Trace[k].frames[repl.env].store[<<"a">>] = IntegerObj(1)

\* a null expression slot, or a call or function literal whose list is null
NullSlot(n) ==
    \/ n.kind = "nil"
    \/ n.kind = "CallExpression" /\ n.ArgumentsNil
    \/ n.kind = "FunctionLiteral" /\ n.ParametersNil

\* C29: A null expression slot always comes with a recorded error: when
\* ParseProgram recorded no error, no expression slot of the Program is null
\* (let value, return value, expression of an expression statement, operand,
\* condition, argument, element, index, hash key, hash value) and no argument
\* list or parameter list is null.
C29_NullMeansError ==
    (par.phase = "parsed" /\ par.errors = <<>>) =>
        \A i \in 1..Len(ParsedNodes) : ~NullSlot(ParsedNodes[i])

\* C29 witness: a let with a function literal of two parameters and a call of
\* two arguments parsed without an error.
C29_Witness ==
    /\ par.phase = "parsed"
    /\ par.src = Src_Fn
    /\ par.errors = <<>>
    /\ \E i \in 1..Len(ParsedNodes) :
          ParsedNodes[i].kind = "CallExpression" /\ Len(ParsedNodes[i].Arguments) = 2
    /\ \E i \in 1..Len(ParsedNodes) :
          ParsedNodes[i].kind = "FunctionLiteral" /\ Len(ParsedNodes[i].Parameters) = 2

\* C29 witness: a Program with a null operand and a null argument list, and the
\* errors recorded for them.
C29_WitnessNull ==
    /\ par.phase = "parsed"
    /\ Len(par.errors) >= 1
    /\ \E i \in 1..Len(ParsedNodes) : ParsedNodes[i].kind = "nil"
    /\ \E i \in 1..Len(ParsedNodes) :
          ParsedNodes[i].kind = "CallExpression" /\ ParsedNodes[i].ArgumentsNil

\* the if-expressions whose consequence or alternative block holds, as one of
\* its statements, the let statement returning at event k
IfsOfLet(k) ==
    {j \in 1..(k - 1) :
        /\ Trace[j].ev = "in" /\ Trace[j].kind = "IfExpression"
        /\ \E b \in (j + 1)..(k - 1) :
              /\ Trace[b].ev = "in" /\ Trace[b].kind = "Block"
              /\ Caller(Trace, k) = b
              /\ Enclosing(Trace, b - 1, 0) = j}

\* no let statement completed for name in frame env between events k and m
NotRebound(k, m, env, name) ==
    \A j \in (k + 1)..(m - 1) :
        ~(LetCompleted(Trace, j) /\ Trace[j].env = env /\ Trace[j].name = name)

\* the function applications between events k and m
AppliesBetween(k, m) == {a \in (k + 1)..(m - 1) : Trace[a].ev = "apply"}

\* C30: If-blocks do not open a scope: a let executed in the consequence or
\* alternative block of an if-expression binds its name in the frame in which
\* the if-expression is evaluated, and what is evaluated after it in that frame
\* reads the binding; frames are made by function applications only (between
\* two returns of Eval the frames grow by the applications made in between).
C30_IfBlocksShareFrame ==
    Evaluated =>
        /\ \A k \in 2..Len(Trace) :
              LetCompleted(Trace, k) =>
                  \A j \in IfsOfLet(k) :
                      /\ Trace[k].env = Trace[j].env
                      /\ Trace[k].name \in DOMAIN Trace[k].frames[Trace[j].env].store
                      /\ Trace[k].frames[Trace[j].env].store[Trace[k].name] = Trace[k - 1].v
                      /\ \A m \in (k + 1)..Len(Trace) :
                            (/\ Returned(m) /\ Trace[m].kind = "Identifier"
                             /\ Trace[m].env = Trace[j].env /\ Trace[m].name = Trace[k].name
                             /\ NotRebound(k, m, Trace[j].env, Trace[k].name)) =>
                                Trace[m].v = Trace[k - 1].v
        /\ \A k, m \in 1..Len(Trace) :
              (k < m /\ Returned(k) /\ Returned(m)) =>
                  Len(Trace[m].frames) =
                      Len(Trace[k].frames) + Cardinality(AppliesBetween(k, m))

\* C30 witness: `if (true) { let a = 5 }; if (!a) { 1 } else { let b = a }; b`
\* gave 5: the let of the consequence and the let of the alternative bound a
\* and b in the frame of the program, where the statements after them read them.
C30_Witness ==
    /\ Evaluated
    /\ repl.src = Prog_LetInIf
    /\ repl.result = IntegerObj(5)
    /\ Cardinality({k \in 2..Len(Trace) : LetCompleted(Trace, k) /\ IfsOfLet(k) # {}}) = 2
    /\ {<<"a">>, <<"b">>} \subseteq DOMAIN TopStore(repl)

\* C30 witness: the same inside a function body, where the frame is the call frame.
C30_WitnessCall ==
    /\ Evaluated
    /\ repl.src = Prog_LetInIfInFn
    /\ \E k \in 2..Len(Trace) :
          /\ LetCompleted(Trace, k) /\ IfsOfLet(k) # {}
          /\ Trace[k].env \in CallFrames
          /\ \E m \in (k + 1)..Len(Trace) :
                /\ Returned(m) /\ Trace[m].kind = "Identifier"
                /\ Trace[m].env = Trace[k].env /\ Trace[m].v = IntegerObj(2)

====
